---- MODULE Spec2Model ----
(***************************************************************************)
(* Pipeline execution engine of excel-ai-backend: operation validation,    *)
(* column-id resolution, the rename/drop handlers, the execute_pipeline    *)
(* task, the PipelineJob record and the HTTP interfaces that read it.      *)
(*                                                                         *)
(* Python values are tagged records: [t |-> "str", v |-> <<chars>>],       *)
(* [t |-> "int", v |-> n], [t |-> "none"], [t |-> "list", v |-> <<...>>],  *)
(* [t |-> "dict", v |-> [key |-> value]].  A str is the sequence of its    *)
(* characters, so that strip() and split(":") are computed, not assumed.   *)
(* A nullable model field is a sequence of length <= 1 (<< >> is NULL).     *)
(***************************************************************************)
EXTENDS Integers, Sequences, FiniteSets, TLC

\* ------------------------------------------------------------------ bounds
\* Longest operation list a client submits.
MaxOps == 2

\* ----------------------------------------------------------- Python values
PyStr(s) == [t |-> "str", v |-> s]
PyInt(n) == [t |-> "int", v |-> n]
PyNone == [t |-> "none"]
PyList(s) == [t |-> "list", v |-> s]
PyDict(f) == [t |-> "dict", v |-> f]

IsStr(x) == x.t = "str"
IsList(x) == x.t = "list"
IsDict(x) == x.t = "dict"

\* Characters str.strip() removes (those of the alphabet used here).
Whitespace == {" ", "\t", "\n"}

RECURSIVE LStrip(_)
LStrip(s) ==
  IF s # << >> /\ Head(s) \in Whitespace THEN LStrip(Tail(s)) ELSE s

RECURSIVE RStrip(_)
RStrip(s) ==
  IF s # << >> /\ s[Len(s)] \in Whitespace
  THEN RStrip(SubSeq(s, 1, Len(s) - 1))
  ELSE s

\* str.strip()
Strip(s) == RStrip(LStrip(s))

\* str.split(":"): the list of the segments between colons.
RECURSIVE SplitColon(_, _, _)
SplitColon(s, cur, acc) ==
  IF s = << >> THEN Append(acc, cur)
  ELSE IF Head(s) = ":" THEN SplitColon(Tail(s), << >>, Append(acc, cur))
  ELSE SplitColon(Tail(s), Append(cur, Head(s)), acc)

Split(s) == SplitColon(s, << >>, << >>)

Digits == {"0", "1", "2", "3", "4", "5", "6", "7", "8", "9"}

DigitVal(c) ==
  CASE c = "0" -> 0 [] c = "1" -> 1 [] c = "2" -> 2 [] c = "3" -> 3
    [] c = "4" -> 4 [] c = "5" -> 5 [] c = "6" -> 6 [] c = "7" -> 7
    [] c = "8" -> 8 [] c = "9" -> 9

RECURSIVE DigitsVal(_, _)
DigitsVal(s, acc) ==
  IF s = << >> THEN acc ELSE DigitsVal(Tail(s), 10 * acc + DigitVal(Head(s)))

\* int(str): surrounding whitespace stripped, an optional sign, then digits.
\* << >> when Python raises ValueError, <<n>> otherwise.
IntOfStr(s) ==
  LET Signed(b) == b # << >> /\ Head(b) \in {"+", "-"}
      Value(negative, d) ==
        IF d = << >> \/ \E k \in 1..Len(d) : d[k] \notin Digits THEN << >>
        ELSE IF negative THEN << 0 - DigitsVal(d, 0) >>
        ELSE << DigitsVal(d, 0) >>
      Parse(b) ==
        IF Signed(b) THEN Value(Head(b) = "-", Tail(b)) ELSE Value(FALSE, b)
  IN Parse(Strip(s))

\* Results of a function that may raise: Ok(value) or Err(message).
Ok(x) == [ok |-> TRUE, val |-> x]
Err(m) == [ok |-> FALSE, err |-> m]

\* A handler mutates the worksheet in place: when it raises, the worksheet is
\* the one it had reached by then.
Raised(m, ws) == [ok |-> FALSE, err |-> m, val |-> ws]

\* ------------------------------------------------- services/validation.py
StrRenameColumn == <<"r","e","n","a","m","e","_","c","o","l","u","m","n">>
StrDropColumn == <<"d","r","o","p","_","c","o","l","u","m","n">>

SUPPORTED_OPERATION_IDS == {StrRenameColumn, StrDropColumn}

ALLOWED_PARAMS_BY_OPERATION(operation_id) ==
  IF operation_id = StrRenameColumn THEN {"columnId", "newName"}
  ELSE {"columnIds"}

\* _validate_operation_shape tolerating keys beyond the three required.
ShapeOkExtraKeys(op) == {"id", "operationId", "params"} \subseteq DOMAIN op.v

\* _validate_operation_shape: the key set is exactly {id, operationId, params}.
ShapeOk(op) == DOMAIN op.v = {"id", "operationId", "params"}

\* _validate_and_register_operation_id without the look-up in seen_ids.
ValidateOpIdNoRegister(op_id_raw, seen_ids) ==
  IF ~IsStr(op_id_raw) THEN Err("id must be a string")
  ELSE LET Register(op_id) ==
             IF op_id = << >> THEN Err("id must be non-empty") ELSE Ok(op_id)
       IN Register(Strip(op_id_raw.v))

\* _validate_and_register_operation_id: the id stripped, or the error.
ValidateOpId(op_id_raw, seen_ids) ==
  IF ~IsStr(op_id_raw) THEN Err("id must be a string")
  ELSE LET Register(op_id) ==
             IF op_id = << >> THEN Err("id must be non-empty")
             ELSE IF op_id \in seen_ids THEN Err("Duplicate operation id")
             ELSE Ok(op_id)
       IN Register(Strip(op_id_raw.v))

\* _validate_operation_id
ValidateOperationId(operation_id_raw) ==
  IF ~IsStr(operation_id_raw) THEN Err("operationId must be a string")
  ELSE IF operation_id_raw.v \notin SUPPORTED_OPERATION_IDS
  THEN Err("Unsupported operationId")
  ELSE Ok(operation_id_raw.v)

\* _validate_operation_params
ValidateOperationParams(operation_id, params_raw) ==
  IF ~IsDict(params_raw) THEN Err("params must be an object")
  ELSE IF DOMAIN params_raw.v # ALLOWED_PARAMS_BY_OPERATION(operation_id)
  THEN Err("Invalid params for operationId")
  ELSE Ok(params_raw)

\* _validate_and_normalize_operation returning the operation with its
\* position in the list as a fourth key.
ValidateAndNormalizeOperationIndexed(raw_op, seen_ids) ==
  IF ~IsDict(raw_op) THEN Err("operation must be an object")
  ELSE IF ~ShapeOk(raw_op)
  THEN Err("Each operation must have exactly keys: id, operationId, params")
  ELSE LET Params(op_id, operation_id, rp) ==
             IF ~rp.ok THEN rp
             ELSE Ok(PyDict([id |-> PyStr(op_id),
                             operationId |-> PyStr(operation_id),
                             params |-> rp.val,
                             idx |-> PyInt(Cardinality(seen_ids))]))
           OperationId(op_id, roid) ==
             IF ~roid.ok THEN roid
             ELSE Params(op_id, roid.val,
                         ValidateOperationParams(roid.val, raw_op.v["params"]))
           OpId(rid) ==
             IF ~rid.ok THEN rid
             ELSE OperationId(rid.val,
                              ValidateOperationId(raw_op.v["operationId"]))
       IN OpId(ValidateOpId(raw_op.v["id"], seen_ids))

\* _validate_and_normalize_operation: the normalized operation, or the first
\* error in the order the code checks.
ValidateAndNormalizeOperation(raw_op, seen_ids) ==
  IF ~IsDict(raw_op) THEN Err("operation must be an object")
  ELSE IF ~ShapeOk(raw_op)
  THEN Err("Each operation must have exactly keys: id, operationId, params")
  ELSE LET Params(op_id, operation_id, rp) ==
             IF ~rp.ok THEN rp
             ELSE Ok(PyDict([id |-> PyStr(op_id),
                             operationId |-> PyStr(operation_id),
                             params |-> rp.val]))
           OperationId(op_id, roid) ==
             IF ~roid.ok THEN roid
             ELSE Params(op_id, roid.val,
                         ValidateOperationParams(roid.val, raw_op.v["params"]))
           OpId(rid) ==
             IF ~rid.ok THEN rid
             ELSE OperationId(rid.val,
                              ValidateOperationId(raw_op.v["operationId"]))
       IN OpId(ValidateOpId(raw_op.v["id"], seen_ids))

RECURSIVE ValidateFrom(_, _, _, _)
ValidateFrom(ops, idx, seen_ids, acc) ==
  IF idx > Len(ops) THEN Ok(PyList(acc))
  ELSE LET Rest(r) ==
             IF ~r.ok THEN r
             ELSE ValidateFrom(ops, idx + 1, seen_ids \cup {r.val.v["id"].v},
                               Append(acc, r.val))
       IN Rest(ValidateAndNormalizeOperation(ops[idx], seen_ids))

\* validate_pipeline_operations
validate_pipeline_operations(pipeline_operations) ==
  IF ~IsList(pipeline_operations) THEN Err("pipeline_operations must be a list")
  ELSE ValidateFrom(pipeline_operations.v, 1, {}, << >>)

\* ------------------------------------------------------------ worksheet
\* A worksheet is the sequence of its rows, each the sequence of the cell
\* values of columns 1..max_column; row 1 is the header row.
MaxColumn(ws) == Len(ws[1])

\* ws.cell(row, column).value: a cell outside the sheet reads None.
CellValue(ws, row, column) ==
  IF column <= MaxColumn(ws) THEN ws[row][column] ELSE PyNone

\* An assignment that writes the value into the column's cell of every row.
SetCellInEveryRow(ws, row, column, value) ==
  [r \in 1..Len(ws) |-> [ws[r] EXCEPT ![column] = value]]

\* ws.cell(row, column).value = value
SetCell(ws, row, column, value) ==
  [ws EXCEPT ![row] = [@ EXCEPT ![column] = value]]

\* ws.delete_cols(idx, 1): column idx removed, the columns to its right
\* shifted left by one, in every row.
DeleteCol(ws, idx) ==
  [r \in 1..Len(ws) |->
     SubSeq(ws[r], 1, idx - 1) \o SubSeq(ws[r], idx + 1, Len(ws[r]))]

\* -------------------------------------------------- services/column_id.py
\* parse_column_id splitting the id as given, without raw = column_id.strip().
parse_column_id_unstripped(column_id) ==
  IF ~IsStr(column_id) THEN Err("columnId must be a string")
  ELSE LET Order(parts, n) ==
             IF n = << >> THEN Err("columnId columnOrder must be an integer")
             ELSE IF n[1] < 0 THEN Err("columnId columnOrder must be >= 0")
             ELSE Ok([sheet_name |-> parts[1], column_order |-> n[1],
                      column_name |-> parts[3]])
           Parts(parts) ==
             IF Len(parts) # 3 THEN Err("columnId must be in format")
             ELSE IF parts[1] = << >>
             THEN Err("columnId sheetName must be non-empty")
             ELSE IF parts[3] = << >>
             THEN Err("columnId columnName must be non-empty")
             ELSE Order(parts, IntOfStr(parts[2]))
       IN Parts(Split(column_id.v))

parse_column_id(column_id) ==
  IF ~IsStr(column_id) THEN Err("columnId must be a string")
  ELSE LET Order(parts, n) ==
             IF n = << >> THEN Err("columnId columnOrder must be an integer")
             ELSE IF n[1] < 0 THEN Err("columnId columnOrder must be >= 0")
             ELSE Ok([sheet_name |-> parts[1], column_order |-> n[1],
                      column_name |-> parts[3]])
           Parts(parts) ==
             IF Len(parts) # 3 THEN Err("columnId must be in format")
             ELSE IF parts[1] = << >>
             THEN Err("columnId sheetName must be non-empty")
             ELSE IF parts[3] = << >>
             THEN Err("columnId columnName must be non-empty")
             ELSE Order(parts, IntOfStr(parts[2]))
       IN Parts(Split(Strip(column_id.v)))

\* resolve_column_id: the 1-based column, or the error.
resolve_column_id(ws, selected_sheet, header_row_idx, column_id) ==
  LET Column(parsed, excel_col) ==
        IF CellValue(ws, header_row_idx, excel_col) # PyStr(parsed.column_name)
        THEN Err("columnId header mismatch")
        ELSE Ok(excel_col)
      Resolve(parsed) ==
        IF ~parsed.ok THEN parsed
        ELSE IF parsed.val.sheet_name # selected_sheet
        THEN Err("columnId sheetName does not match selected sheet")
        ELSE Column(parsed.val, parsed.val.column_order + 1)
  IN Resolve(parse_column_id(column_id))

\* -------------------------------------------------- services/operations.py
\* _header_values
HeaderValues(ws, header_row_idx) == ws[header_row_idx]

\* apply_rename_column without the scan of the header for the new name.
apply_rename_column_unscanned(ws, header_row_idx, selected_sheet, column_id, new_name) ==
  IF ~IsStr(new_name) \/ Strip(new_name.v) = << >>
  THEN Raised("newName must be a non-empty string", ws)
  ELSE LET Renamed(name, r) ==
             IF ~r.ok THEN Raised(r.err, ws)
             ELSE Ok(SetCell(ws, header_row_idx, r.val, PyStr(name)))
       IN Renamed(Strip(new_name.v),
                  resolve_column_id(ws, selected_sheet, header_row_idx, column_id))

\* apply_rename_column scanning the header for the new name as it was given
\* and writing it stripped.
apply_rename_column_raw_scan(ws, header_row_idx, selected_sheet, column_id, new_name) ==
  IF ~IsStr(new_name) \/ Strip(new_name.v) = << >>
  THEN Raised("newName must be a non-empty string", ws)
  ELSE LET Set(name, col_idx, header_vals) ==
             IF \E i \in 1..Len(header_vals) :
                  i # col_idx /\ header_vals[i] = new_name
             THEN Raised("Rename collision", ws)
             ELSE Ok(SetCell(ws, header_row_idx, col_idx, PyStr(name)))
           Renamed(name, r) ==
             IF ~r.ok THEN Raised(r.err, ws)
             ELSE Set(name, r.val, HeaderValues(ws, header_row_idx))
       IN Renamed(Strip(new_name.v),
                  resolve_column_id(ws, selected_sheet, header_row_idx, column_id))

\* apply_rename_column: Ok(the worksheet afterwards), or the error raised
\* with the worksheet as it was left.
apply_rename_column(ws, header_row_idx, selected_sheet, column_id, new_name) ==
  IF ~IsStr(new_name) \/ Strip(new_name.v) = << >>
  THEN Raised("newName must be a non-empty string", ws)
  ELSE LET Set(name, col_idx, header_vals) ==
             IF \E i \in 1..Len(header_vals) :
                  i # col_idx /\ header_vals[i] = PyStr(name)
             THEN Raised("Rename collision", ws)
             ELSE Ok(SetCell(ws, header_row_idx, col_idx, PyStr(name)))
           Renamed(name, r) ==
             IF ~r.ok THEN Raised(r.err, ws)
             ELSE Set(name, r.val, HeaderValues(ws, header_row_idx))
       IN Renamed(Strip(new_name.v),
                  resolve_column_id(ws, selected_sheet, header_row_idx, column_id))

\* The ids of a drop resolved one after the other on the same sheet, before
\* any deletion: the resolved positions in list order, or the first error.
RECURSIVE ResolveAll(_, _, _, _, _)
ResolveAll(ws, selected_sheet, header_row_idx, column_ids, resolved) ==
  IF column_ids = << >> THEN Ok(resolved)
  ELSE LET Rest(r) ==
             IF ~r.ok THEN r
             ELSE ResolveAll(ws, selected_sheet, header_row_idx,
                             Tail(column_ids), Append(resolved, r.val))
       IN Rest(resolve_column_id(ws, selected_sheet, header_row_idx,
                                 Head(column_ids)))

\* The deletions done from the lowest position to the highest.
RECURSIVE DeleteAscending(_, _)
DeleteAscending(ws, cols) ==
  IF cols = {} THEN ws
  ELSE LET DeleteMin(m) == DeleteAscending(DeleteCol(ws, m), cols \ {m})
       IN DeleteMin(CHOOSE c \in cols : \A d \in cols : c <= d)

\* for col_idx in sorted(set(resolved), reverse=True): ws.delete_cols(col_idx, 1)
RECURSIVE DeleteDescending(_, _)
DeleteDescending(ws, cols) ==
  IF cols = {} THEN ws
  ELSE LET DeleteMax(m) == DeleteDescending(DeleteCol(ws, m), cols \ {m})
       IN DeleteMax(CHOOSE c \in cols : \A d \in cols : d <= c)

\* A drop that resolves an id and deletes its column before it turns to the
\* next id.
RECURSIVE DropOneByOne(_, _, _, _)
DropOneByOne(ws, selected_sheet, header_row_idx, column_ids) ==
  IF column_ids = << >> THEN Ok(ws)
  ELSE LET Next1(r) ==
             IF ~r.ok THEN Raised(r.err, ws)
             ELSE DropOneByOne(DeleteCol(ws, r.val), selected_sheet,
                               header_row_idx, Tail(column_ids))
       IN Next1(resolve_column_id(ws, selected_sheet, header_row_idx,
                                  Head(column_ids)))

apply_drop_column_one_by_one(ws, header_row_idx, selected_sheet, column_ids) ==
  IF ~IsList(column_ids) THEN Raised("columnIds must be a list", ws)
  ELSE IF column_ids.v = << >>
  THEN Raised("columnIds must be a non-empty list", ws)
  ELSE IF \E k \in 1..Len(column_ids.v) :
            ~IsStr(column_ids.v[k]) \/ Strip(column_ids.v[k].v) = << >>
  THEN Raised("columnIds must contain non-empty strings only", ws)
  ELSE IF Cardinality({column_ids.v[k] : k \in 1..Len(column_ids.v)})
             # Len(column_ids.v)
  THEN Raised("columnIds must not contain duplicates", ws)
  ELSE DropOneByOne(ws, selected_sheet, header_row_idx, column_ids.v)

\* apply_drop_column: Ok(the worksheet afterwards), or the error raised with
\* the worksheet as it was left.
apply_drop_column(ws, header_row_idx, selected_sheet, column_ids) ==
  IF ~IsList(column_ids) THEN Raised("columnIds must be a list", ws)
  ELSE IF column_ids.v = << >>
  THEN Raised("columnIds must be a non-empty list", ws)
  ELSE IF \E k \in 1..Len(column_ids.v) :
            ~IsStr(column_ids.v[k]) \/ Strip(column_ids.v[k].v) = << >>
  THEN Raised("columnIds must contain non-empty strings only", ws)
  ELSE IF Cardinality({column_ids.v[k] : k \in 1..Len(column_ids.v)})
             # Len(column_ids.v)
  THEN Raised("columnIds must not contain duplicates", ws)
  ELSE LET Delete(r) ==
             IF ~r.ok THEN Raised(r.err, ws)
             ELSE Ok(DeleteDescending(ws, {r.val[k] : k \in 1..Len(r.val)}))
       IN Delete(ResolveAll(ws, selected_sheet, header_row_idx, column_ids.v,
                            << >>))

\* ---------------------------------------------------- services/workbook.py
\* extract_selected_sheet_workbook: a new workbook holding a copy of the
\* selected sheet's cell values, or the error when the sheet is missing.
extract_selected_sheet_workbook(workbook, selected_sheet) ==
  LET Copy(source) ==
        [r \in 1..Len(source) |-> [c \in 1..Len(source[r]) |-> source[r][c]]]
  IN IF selected_sheet \notin DOMAIN workbook
     THEN Err("Sheet not found in workbook")
     ELSE Ok(Copy(workbook[selected_sheet]))

\* ------------------------------------------------------------- the world
\* Principals, uploaded files and the requests a client may send.
Users == {"u1", "u2"}
JobIds == {"j1"}

SheetS == <<"S">>
SheetT == <<"T">>

\* The uploaded workbook: one sheet S, header A/B/C and one data row.
SourceWorkbook ==
  (SheetS :> << <<PyStr(<<"A">>), PyStr(<<"B">>), PyStr(<<"C">>)>>,
                <<PyInt(10), PyInt(20), PyInt(30)>> >>)

\* ProcessedFile rows: f1 selects sheet S; f2 selects a sheet the workbook
\* does not have.
Files ==
  [f1 |-> [clerk_user_id |-> "u1", selected_sheet |-> SheetS,
           workbook |-> SourceWorkbook],
   f2 |-> [clerk_user_id |-> "u2", selected_sheet |-> SheetT,
           workbook |-> SourceWorkbook]]

ColId(sheet, order, name) == sheet \o <<":">> \o order \o <<":">> \o name

RawOp(id, operation_id, params) ==
  PyDict([id |-> PyStr(id), operationId |-> PyStr(operation_id),
          params |-> PyDict(params)])

Rename(id, column_id, new_name) ==
  RawOp(id, StrRenameColumn,
        [columnId |-> PyStr(column_id), newName |-> PyStr(new_name)])

Drop(id, column_ids) ==
  RawOp(id, StrDropColumn,
        [columnIds |-> PyList([k \in 1..Len(column_ids) |-> PyStr(column_ids[k])])])

\* The operations a client composes its list from.  On the header A/B/C:
\* "1" renames A; "2" names a header only "1" produces; "4" drops C and A;
\* "5" drops B, which shifts C; "6" names C at its shifted position; "7"
\* names C at its first position and asks for a name that A holds; " 1"
\* repeats an id (once stripped) and a column id; "8" is no catalogue entry.
Catalogue ==
  { Rename(<<"1">>, ColId(SheetS, <<"0">>, <<"A">>), <<"X">>),
    Rename(<<"2">>, ColId(SheetS, <<"0">>, <<"X">>), <<" ", "Y", " ">>),
    Drop(<<"4">>, <<ColId(SheetS, <<"2">>, <<"C">>), ColId(SheetS, <<"0">>, <<"A">>)>>),
    Drop(<<"5">>, <<ColId(SheetS, <<"1">>, <<"B">>)>>),
    Rename(<<"6">>, ColId(SheetS, <<"1">>, <<"C">>), <<"Z">>),
    Rename(<<"7">>, ColId(SheetS, <<"2">>, <<"C">>), <<"A">>),
    Drop(<<" ", "1">>, <<ColId(SheetS, <<"0">>, <<"A">>), ColId(SheetS, <<"0">>, <<"A">>)>>),
    RawOp(<<"8">>, <<"s","u","m">>, [columnId |-> PyStr(<<"x">>)]) }

\* The values a request carries as pipeline_operations.
Inputs ==
  {PyList(s) : s \in UNION {[1..n -> Catalogue] : n \in 0..MaxOps}}
    \cup {PyStr(<<"x">>)}

\* ------------------------------------------------------------------ state
VARIABLES
  db,          \* PipelineJob table: job id -> row, for the ids created
  queue,       \* broker: ids of the execute_pipeline messages not yet taken
  task,        \* per job, the worker running execute_pipeline(job id)
  progress,    \* per job, the update_state metas of the current run, in order
  calls,       \* per job, the operations whose handler the current run called
  deliveries,  \* per job, how many times its task message was delivered
  post,        \* the submission view between its writes
  http,        \* the exchange in progress at the submission interface
  svc,         \* a service function called on its own: name, arguments, result
  backend,     \* Celery result backend: per job's task id, its state and info
  stream,      \* the event stream view and its generator: locals, events sent
  reply        \* the last exchange at the status or the download interface

vars == <<db, queue, task, progress, calls, deliveries, post, http, svc, backend, stream, reply>>

\* How many times the broker delivers one job's message.
MaxDeliveries == 2

Now == <<"now">>
HeaderRowIdx == 1

\* ---------------------------------------------------------------- models.py
\* PipelineJob.objects.create(...): the row with the field defaults.
NewJob(file, clerk_user_id, pipeline_operations) ==
  [file |-> file, clerk_user_id |-> clerk_user_id,
   pipeline_operations |-> pipeline_operations,
   status |-> "PENDING", error |-> << >>, celery_task_id |-> << >>,
   output_file |-> << >>, started_at |-> << >>, finished_at |-> << >>]

\* save(update_fields=fields): the row with these fields taken from the
\* in-memory instance and every other column left as stored.
SaveFields(row, job, fields) ==
  [f \in DOMAIN row |-> IF f \in fields THEN job[f] ELSE row[f]]

\* mark_running: the instance after the assignments, and the fields saved.
mark_running(job, task_id) ==
  [job EXCEPT !.status = "RUNNING", !.started_at = Now,
              !.celery_task_id = IF task_id # << >> THEN task_id ELSE @]

MarkRunningFields == {"status", "started_at", "celery_task_id"}

mark_succeeded(job) ==
  [job EXCEPT !.status = "SUCCEEDED", !.finished_at = Now]

MarkSucceededFields == {"status", "finished_at"}

\* mark_failed without the finish timestamp.
mark_failed_untimed(job, error) ==
  [job EXCEPT !.status = "FAILED", !.error = <<error>>]

mark_failed(job, error) ==
  [job EXCEPT !.status = "FAILED", !.error = <<error>>, !.finished_at = Now]

MarkFailedFields == {"status", "error", "finished_at"}

\* ------------------------------------------------------- views/status.py
\* PipelineStatusView.get for the owner: the payload built from one read.
StatusPayload(job) ==
  [status |-> job.status, error |-> job.error, task_id |-> job.celery_task_id,
   has_output |-> job.output_file # << >>,
   download_url |-> job.status = "SUCCEEDED"]

\* ------------------------------------------------------------------- Init
IdleTask ==
  [pc |-> "none", job |-> << >>, ops |-> << >>, ws |-> << >>, i |-> 0,
   total |-> 0, buf |-> << >>, exc |-> << >>]

IdlePost == [pc |-> "idle", job_id |-> << >>, task_id |-> << >>]

NoExchange == [user |-> "", file_id |-> "", ops |-> PyNone, code |-> 0,
               error |-> ""]

\* What AsyncResult(task_id) holds for a task id the backend has no entry
\* for: state PENDING, info None.
NoResult == [state |-> "PENDING", info |-> [kind |-> "none"]]

\* No stream request was made.
NoStream ==
  [pc |-> "idle", user |-> "", job_id |-> "", code |-> 0, job |-> << >>,
   last_job_status |-> << >>, last_task_state |-> << >>,
   last_task_meta |-> << >>, events |-> << >>]

\* No request was made at the status or the download interface.
NoReply == [view |-> "none", user |-> "", job_id |-> "", code |-> 0,
            body |-> << >>]

\* No service function is being called on its own.
NoCall == [fn |-> "none", args |-> << >>, ret |-> << >>]

\* No job row, no message, no worker running, no request in progress.
Quiescent ==
  /\ db = [j \in {} |-> j]
  /\ queue = {}
  /\ task = [j \in JobIds |-> IdleTask]
  /\ progress = [j \in JobIds |-> << >>]
  /\ calls = [j \in JobIds |-> << >>]
  /\ deliveries = [j \in JobIds |-> 0]
  /\ post = IdlePost
  /\ http = NoExchange
  /\ backend = [j \in JobIds |-> NoResult]
  /\ stream = NoStream
  /\ reply = NoReply

Init ==
  /\ Quiescent
  /\ svc = NoCall

\* ------------------------------------------------------ views/execute.py
TaskIdOf(j) == <<"task", j>>

\* PipelineExecuteView.post up to PipelineJob.objects.create: the request is
\* answered with an error, or the job row is created.
PostCreate(user, file_id, ops) ==
  /\ post.pc = "idle"
  /\ JobIds \ DOMAIN db # {}
  /\ LET req == [user |-> user, file_id |-> file_id, ops |-> ops, code |-> 0,
                 error |-> ""]
         Reject(code, error) ==
           /\ http' = [req EXCEPT !.code = code, !.error = error]
           /\ post' = [post EXCEPT !.pc = "respond"]
           /\ UNCHANGED db
         Create(j, validated_ops) ==
           /\ db' = (j :> NewJob(file_id, user, validated_ops)) @@ db
           /\ post' = [pc |-> "dispatch", job_id |-> <<j>>, task_id |-> << >>]
           /\ http' = req
         Validated(v) ==
           IF user = "" THEN Reject(401, "Authentication required")
           ELSE IF file_id = "" THEN Reject(400, "file_id is required")
           ELSE IF ~v.ok THEN Reject(400, v.err)
           ELSE IF file_id \notin DOMAIN Files THEN Reject(404, "File not found")
           ELSE IF Files[file_id].clerk_user_id # user
           THEN Reject(500, "Error starting pipeline execution")
           ELSE Create(CHOOSE x \in JobIds \ DOMAIN db : TRUE, v.val)
     IN Validated(validate_pipeline_operations(ops))
  /\ UNCHANGED <<queue, task, progress, calls, deliveries, svc, backend, stream, reply>>

\* execute_pipeline.delay(job_id): the message is queued, or the broker
\* refuses it and the view answers 500.
PostDispatch ==
  /\ post.pc = "dispatch"
  /\ \/ /\ queue' = queue \cup {post.job_id[1]}
        /\ post' = [post EXCEPT !.pc = "save_task_id",
                                !.task_id = <<TaskIdOf(post.job_id[1])>>]
        /\ UNCHANGED http
     \/ /\ post' = [post EXCEPT !.pc = "respond"]
        /\ http' = [http EXCEPT !.code = 500,
                                !.error = "Error starting pipeline execution"]
        /\ UNCHANGED queue
  /\ UNCHANGED <<db, task, progress, calls, deliveries, svc, backend, stream, reply>>

\* The write of the task id as job.save() without update_fields: every
\* column is written from the instance PipelineJob.objects.create returned.
PostSaveTaskIdAllFields ==
  /\ post.pc = "save_task_id"
  /\ db' = [db EXCEPT ![post.job_id[1]] =
              [NewJob(@.file, @.clerk_user_id, @.pipeline_operations)
                 EXCEPT !.celery_task_id = post.task_id]]
  /\ http' = [http EXCEPT !.code = 202]
  /\ post' = [post EXCEPT !.pc = "respond"]
  /\ UNCHANGED <<queue, task, progress, calls, deliveries, svc, backend, stream, reply>>

\* job.celery_task_id = async_result.id; job.save(update_fields=[...]); 202.
PostSaveTaskId ==
  /\ post.pc = "save_task_id"
  /\ db' = [db EXCEPT ![post.job_id[1]].celery_task_id = post.task_id]
  /\ http' = [http EXCEPT !.code = 202]
  /\ post' = [post EXCEPT !.pc = "respond"]
  /\ UNCHANGED <<queue, task, progress, calls, deliveries, svc, backend, stream, reply>>

\* return Response(...): the exchange ends and the view takes the next request.
PostRespond ==
  /\ post.pc = "respond"
  /\ post' = IdlePost
  /\ http' = NoExchange
  /\ UNCHANGED <<db, queue, task, progress, calls, deliveries, svc, backend, stream, reply>>

\* ------------------------------------------------------------- tasks.py
\* The broker hands a worker the message of job j: execute_pipeline(j) begins.
Deliver(j) ==
  /\ j \in queue
  /\ task[j].pc \in {"none", "returned", "raised"}
  /\ queue' = queue \ {j}
  /\ task' = [task EXCEPT ![j] = [IdleTask EXCEPT !.pc = "load"]]
  /\ progress' = [progress EXCEPT ![j] = << >>]
  /\ calls' = [calls EXCEPT ![j] = << >>]
  /\ deliveries' = [deliveries EXCEPT ![j] = @ + 1]
  /\ UNCHANGED <<db, post, http, svc, backend, stream, reply>>

\* The broker delivers a message a second time after its run ended (a
\* message that outlived its visibility timeout, or one queued by hand).
Redeliver(j) ==
  /\ task[j].pc \in {"returned", "raised"}
  /\ j \notin queue
  /\ deliveries[j] < MaxDeliveries
  /\ queue' = queue \cup {j}
  /\ UNCHANGED <<db, task, progress, calls, deliveries, post, http, svc, backend, stream, reply>>

\* An exception leaves the try block: control goes to the except clause.
Raise(j, t, message) ==
  task' = [task EXCEPT ![j] = [t EXCEPT !.exc = <<message>>, !.pc = "except"]]

\* job = PipelineJob.objects.select_related("file").get(job_id=job_id)
Load(j) ==
  /\ task[j].pc = "load"
  /\ \/ task' = [task EXCEPT ![j].job = <<db[j]>>, ![j].pc = "mark_running"]
     \/ Raise(j, task[j], "database error")
  /\ UNCHANGED <<db, queue, progress, calls, deliveries, post, http, svc, backend, stream, reply>>

\* task_id = self.request.id or job.celery_task_id; job.mark_running(task_id)
MarkRunning(j) ==
  /\ task[j].pc = "mark_running"
  /\ LET Save(job) ==
           \/ /\ db' = [db EXCEPT ![j] = SaveFields(@, job, MarkRunningFields)]
              /\ task' = [task EXCEPT ![j].job = <<job>>, ![j].pc = "validate"]
           \/ /\ Raise(j, [task[j] EXCEPT !.job = <<job>>], "database error")
              /\ UNCHANGED db
     IN Save(mark_running(task[j].job[1], <<TaskIdOf(j)>>))
  /\ UNCHANGED <<queue, progress, calls, deliveries, post, http, svc, backend, stream, reply>>

\* ops = validate_pipeline_operations(job.pipeline_operations)
Revalidate(j) ==
  /\ task[j].pc = "validate"
  /\ LET Validated(r) ==
           IF r.ok
           THEN task' = [task EXCEPT ![j].ops = r.val.v, ![j].pc = "extract"]
           ELSE Raise(j, task[j], r.err)
     IN Validated(validate_pipeline_operations(task[j].job[1].pipeline_operations))
  /\ UNCHANGED <<db, queue, progress, calls, deliveries, post, http, svc, backend, stream, reply>>

\* The extraction with the loaded workbook kept per file and handed to every
\* run on that file: a run that starts while another run on the same file
\* holds a worksheet gets that worksheet.
ExtractShared(j) ==
  /\ task[j].pc = "extract"
  /\ LET Others == {k \in DOMAIN task \ {j} :
                      /\ task[k].ws # << >>
                      /\ task[k].job[1].file = task[j].job[1].file}
         Start(ws) ==
           task' = [task EXCEPT ![j].ws = ws, ![j].i = 0,
                                ![j].total = Len(task[j].ops),
                                ![j].pc = IF Len(task[j].ops) = 0
                                          THEN "serialize" ELSE "start"]
         Extracted(r) == IF r.ok THEN Start(r.val) ELSE Raise(j, task[j], r.err)
         From(file_record) ==
           Extracted(extract_selected_sheet_workbook(file_record.workbook,
                                                     file_record.selected_sheet))
     IN IF Others # {}
        THEN Start(task[CHOOSE k \in Others : TRUE].ws)
        ELSE From(Files[task[j].job[1].file])
  /\ UNCHANGED <<db, queue, progress, calls, deliveries, post, http, svc, backend, stream, reply>>

\* wb = extract_selected_sheet_workbook(...); ws = wb[selected_sheet];
\* total = len(ops); the loop begins (or is skipped for an empty list).
Extract(j) ==
  /\ task[j].pc = "extract"
  /\ LET Extracted(r) ==
           IF r.ok
           THEN task' = [task EXCEPT ![j].ws = r.val, ![j].i = 0,
                                     ![j].total = Len(task[j].ops),
                                     ![j].pc = IF Len(task[j].ops) = 0
                                               THEN "serialize" ELSE "start"]
           ELSE Raise(j, task[j], r.err)
         From(file_record) ==
           Extracted(extract_selected_sheet_workbook(file_record.workbook,
                                                     file_record.selected_sheet))
     IN From(Files[task[j].job[1].file])
  /\ UNCHANGED <<db, queue, progress, calls, deliveries, post, http, svc, backend, stream, reply>>

\* The meta with the loop's 0-based position as index.
MetaZeroBased(t, phase) ==
  [index |-> t.i, total |-> t.total, id |-> t.ops[t.i + 1].v["id"],
   operationId |-> t.ops[t.i + 1].v["operationId"], phase |-> phase]

\* The meta of self.update_state(state="PROGRESS", meta=...).
Meta(t, phase) ==
  [index |-> t.i + 1, total |-> t.total, id |-> t.ops[t.i + 1].v["id"],
   operationId |-> t.ops[t.i + 1].v["operationId"], phase |-> phase]

\* self.update_state(state=..., meta=...): the backend's entry for the task.
update_state(state, meta) == [state |-> state, info |-> [kind |-> "dict", v |-> meta]]

\* The "start" update_state of operation i.
OpStart(j) ==
  /\ task[j].pc = "start"
  /\ progress' = [progress EXCEPT ![j] = Append(@, Meta(task[j], "start"))]
  /\ backend' = [backend EXCEPT ![j] = update_state("PROGRESS", Meta(task[j], "start"))]
  /\ task' = [task EXCEPT ![j].pc = "apply"]
  /\ UNCHANGED <<db, queue, calls, deliveries, post, http, svc, stream, reply>>

\* The dispatch on op["operationId"] to the handler.
Dispatch(ws, selected_sheet, op) ==
  LET operation_id == op.v["operationId"].v
      params == op.v["params"].v
  IN IF operation_id = StrRenameColumn
     THEN apply_rename_column(ws, HeaderRowIdx, selected_sheet,
                              params["columnId"], params["newName"])
     ELSE IF operation_id = StrDropColumn
     THEN apply_drop_column(ws, HeaderRowIdx, selected_sheet, params["columnIds"])
     ELSE Raised("Unsupported operationId", ws)

\* The loop body with the handler's error swallowed: the loop goes on.
OpApplySwallow(j) ==
  /\ task[j].pc = "apply"
  /\ LET Applied(r) ==
           task' = [task EXCEPT ![j].ws = r.val, ![j].pc = "done"]
         Run(t) ==
           Applied(Dispatch(t.ws, Files[t.job[1].file].selected_sheet,
                            t.ops[t.i + 1]))
     IN Run(task[j])
  /\ calls' = [calls EXCEPT ![j] = Append(@, task[j].i + 1)]
  /\ UNCHANGED <<db, queue, progress, deliveries, post, http, svc, backend, stream, reply>>

\* The loop body with the column ids resolved on the header of the uploaded
\* sheet instead of the header the earlier operations left.
OpApplyOnOriginal(j) ==
  /\ task[j].pc = "apply"
  /\ LET Applied(t, r, original) ==
           IF r.ok /\ original.ok
           THEN task' = [task EXCEPT ![j].ws = r.val, ![j].pc = "done"]
           ELSE Raise(j, t, IF original.ok THEN r.err ELSE original.err)
         Run(t, file_record) ==
           Applied(t,
                   Dispatch(t.ws, file_record.selected_sheet, t.ops[t.i + 1]),
                   Dispatch(file_record.workbook[file_record.selected_sheet],
                            file_record.selected_sheet, t.ops[t.i + 1]))
     IN Run(task[j], Files[task[j].job[1].file])
  /\ calls' = [calls EXCEPT ![j] = Append(@, task[j].i + 1)]
  /\ UNCHANGED <<db, queue, progress, deliveries, post, http, svc, backend, stream, reply>>

\* The loop body that records a handler's error on the row at once, with
\* mark_failed, and goes on with the next operation.
OpApplyFailAndGoOn(j) ==
  /\ task[j].pc = "apply"
  /\ LET Applied(t, r) ==
           IF r.ok
           THEN /\ task' = [task EXCEPT ![j].ws = r.val, ![j].pc = "done"]
                /\ UNCHANGED db
           ELSE /\ task' = [task EXCEPT ![j].job = <<mark_failed(t.job[1], r.err)>>,
                                        ![j].pc = "done"]
                /\ db' = [db EXCEPT ![j] = SaveFields(@, mark_failed(t.job[1], r.err),
                                                      MarkFailedFields)]
         Run(t) ==
           Applied(t, Dispatch(t.ws, Files[t.job[1].file].selected_sheet,
                               t.ops[t.i + 1]))
     IN Run(task[j])
  /\ calls' = [calls EXCEPT ![j] = Append(@, task[j].i + 1)]
  /\ UNCHANGED <<queue, progress, deliveries, post, http, svc, backend, stream, reply>>

\* The handler of operation i runs on the worksheet of the run.
OpApply(j) ==
  /\ task[j].pc = "apply"
  /\ LET Applied(r) ==
           IF r.ok
           THEN task' = [task EXCEPT ![j].ws = r.val, ![j].pc = "done"]
           ELSE Raise(j, [task[j] EXCEPT !.ws = r.val], r.err)
         Run(t) ==
           Applied(Dispatch(t.ws, Files[t.job[1].file].selected_sheet,
                            t.ops[t.i + 1]))
     IN Run(task[j])
  /\ calls' = [calls EXCEPT ![j] = Append(@, task[j].i + 1)]
  /\ UNCHANGED <<db, queue, progress, deliveries, post, http, svc, backend, stream, reply>>

\* The "done" update_state of operation i; the loop goes on or ends.
OpDone(j) ==
  /\ task[j].pc = "done"
  /\ progress' = [progress EXCEPT ![j] = Append(@, Meta(task[j], "done"))]
  /\ backend' = [backend EXCEPT ![j] = update_state("PROGRESS", Meta(task[j], "done"))]
  /\ task' = [task EXCEPT ![j].i = @ + 1,
                          ![j].pc = IF task[j].i + 1 < task[j].total
                                    THEN "start" ELSE "serialize"]
  /\ UNCHANGED <<db, queue, calls, deliveries, post, http, svc, stream, reply>>

\* buf = io.BytesIO(); wb.save(buf)
Serialize(j) ==
  /\ task[j].pc = "serialize"
  /\ \/ task' = [task EXCEPT ![j].buf = <<task[j].ws>>, ![j].pc = "attach"]
     \/ Raise(j, task[j], "serialization error")
  /\ UNCHANGED <<db, queue, progress, calls, deliveries, post, http, svc, backend, stream, reply>>

\* job.output_file.save(output_filename, ContentFile(buf.read()), save=False)
Attach(j) ==
  /\ task[j].pc = "attach"
  /\ \/ task' = [task EXCEPT ![j].job[1].output_file = task[j].buf,
                             ![j].pc = "save_output"]
     \/ Raise(j, task[j], "storage error")
  /\ UNCHANGED <<db, queue, progress, calls, deliveries, post, http, svc, backend, stream, reply>>

\* The update_fields of the output save without "output_file".
SaveOutputFieldsErrorOnly == {"error"}

\* The fields of job.save(update_fields=["output_file", "error", "updated_at"]).
SaveOutputFields == {"output_file", "error"}

\* The engine going on to mark_succeeded without the save of the output:
\* the artifact stays on the worker's instance.
SaveOutputSkipped(j) ==
  /\ task[j].pc = "save_output"
  /\ task' = [task EXCEPT ![j].job = <<[task[j].job[1] EXCEPT !.error = << >>]>>,
                          ![j].pc = "mark_succeeded"]
  /\ UNCHANGED <<db, queue, progress, calls, deliveries, post, http, svc, backend, stream, reply>>

\* job.error = None; job.save(update_fields=["output_file", "error", ...])
SaveOutput(j) ==
  /\ task[j].pc = "save_output"
  /\ LET Save(job) ==
           \/ /\ db' = [db EXCEPT ![j] = SaveFields(@, job, SaveOutputFields)]
              /\ task' = [task EXCEPT ![j].job = <<job>>,
                                      ![j].pc = "mark_succeeded"]
           \/ /\ Raise(j, [task[j] EXCEPT !.job = <<job>>], "database error")
              /\ UNCHANGED db
     IN Save([task[j].job[1] EXCEPT !.error = << >>])
  /\ UNCHANGED <<queue, progress, calls, deliveries, post, http, svc, backend, stream, reply>>

\* job.mark_succeeded(); return {...}
MarkSucceeded(j) ==
  /\ task[j].pc = "mark_succeeded"
  /\ LET Save(job) ==
           \/ /\ db' = [db EXCEPT ![j] = SaveFields(@, job, MarkSucceededFields)]
              /\ task' = [task EXCEPT ![j].job = <<job>>, ![j].pc = "returned"]
           \/ /\ Raise(j, [task[j] EXCEPT !.job = <<job>>], "database error")
              /\ UNCHANGED db
     IN Save(mark_succeeded(task[j].job[1]))
  /\ UNCHANGED <<queue, progress, calls, deliveries, post, http, svc, backend, stream, reply>>

\* The except clause that re-raises without calling mark_failed.
ExceptReraiseOnly(j) ==
  /\ task[j].pc = "except"
  /\ task' = [task EXCEPT ![j].pc = "raised"]
  /\ UNCHANGED <<db, queue, progress, calls, deliveries, post, http, svc, backend, stream, reply>>

\* except Exception as exc: if job is not None: job.mark_failed(str(exc)); raise
Except(j) ==
  /\ task[j].pc = "except"
  /\ IF task[j].job # << >>
     THEN LET Save(job) ==
                /\ db' = [db EXCEPT ![j] = SaveFields(@, job, MarkFailedFields)]
                /\ task' = [task EXCEPT ![j].job = <<job>>, ![j].pc = "raised"]
          IN Save(mark_failed(task[j].job[1], task[j].exc[1]))
     ELSE /\ task' = [task EXCEPT ![j].pc = "raised"]
          /\ UNCHANGED db
  /\ UNCHANGED <<queue, progress, calls, deliveries, post, http, svc, backend, stream, reply>>

\* What the worker stores in the result backend when execute_pipeline ends:
\* SUCCESS with the returned dict, or FAILURE with the exception raised.
TaskResult(j, t) ==
  IF t.pc = "returned"
  THEN [state |-> "SUCCESS",
        info |-> [kind |-> "dict",
                  v |-> [job_id |-> j, output_file |-> t.job[1].output_file]]]
  ELSE [state |-> "FAILURE", info |-> [kind |-> "exc", v |-> t.exc[1]]]

\* The worker stores the outcome of the run that ended.
StoreResult(j) ==
  /\ task[j].pc \in {"returned", "raised"}
  /\ backend[j] # TaskResult(j, task[j])
  /\ backend' = [backend EXCEPT ![j] = TaskResult(j, task[j])]
  /\ UNCHANGED <<db, queue, task, progress, calls, deliveries, post, http, svc, stream, reply>>

\* ------------------------------------------------------------------ Next
\* A client sends a request to the submission interface while the view is
\* free: any principal (or none), any file id (or none, or an unknown one),
\* any operation list.
Submit ==
  /\ post.pc = "idle"
  /\ \E user \in Users \cup {""}, file_id \in DOMAIN Files \cup {"", "f9"},
        ops \in Inputs : PostCreate(user, file_id, ops)

Next ==
  \/ Submit
  \/ PostDispatch
  \/ PostSaveTaskId
  \/ PostRespond
  \/ \E j \in JobIds :
       \/ Deliver(j)
       \/ Load(j)
       \/ MarkRunning(j)
       \/ Revalidate(j)
       \/ Extract(j)
       \/ OpStart(j)
       \/ OpApply(j)
       \/ OpDone(j)
       \/ Serialize(j)
       \/ Attach(j)
       \/ SaveOutput(j)
       \/ MarkSucceeded(j)
       \/ Except(j)
       \/ StoreResult(j)

\* Every job's message is delivered once, as the submission view queues it.
Spec == Init /\ [][Next]_vars

\* At-least-once delivery: a job's message may reach a worker again.
NextRedeliver ==
  \/ Next
  \/ \E j \in JobIds : Redeliver(j)

SpecRedeliver == Init /\ [][NextRedeliver]_vars

\* ------------------------------------------------- views/helpers and sse
\* The download reference of a job.
DownloadUrl(job_id) == <<"/api/pipeline/execution/", job_id, "/download/">>

\* The frames sse_event formats: the event's name and its JSON payload.
connected_event(job_id, job) ==
  [event |-> "connected", job_id |-> job_id, task_id |-> job.celery_task_id,
   status |-> job.status]

job_status_event(job_id, job) ==
  [event |-> "job_status", job_id |-> job_id, status |-> job.status,
   error |-> job.error]

succeeded_event(job_id, job) ==
  [event |-> "succeeded", job_id |-> job_id, status |-> job.status,
   download_url |-> DownloadUrl(job_id)]

failed_event(job_id, job) ==
  [event |-> "failed", job_id |-> job_id, status |-> job.status,
   error |-> job.error]

task_state_event(job_id, job, task_state, task_meta) ==
  [event |-> "task_state", job_id |-> job_id, task_id |-> job.celery_task_id,
   state |-> task_state, meta |-> task_meta]

\* _get_task_snapshot: the state of AsyncResult(task_id) and its info when
\* the info is a dict, None otherwise.
get_task_snapshot(results, task_id) ==
  LET res == results[task_id[2]]
  IN [state |-> res.state,
      meta |-> IF res.info.kind = "dict" THEN <<res.info.v>> ELSE << >>]

\* The level-triggered helper: an event in every turn of the loop.
maybe_emit_job_status_always(job_id, job, last_job_status) ==
  [event |-> <<job_status_event(job_id, job)>>,
   last_job_status |-> <<job.status>>]

\* The event, if any, and the new last_job_status.
maybe_emit_job_status_change(job_id, job, last_job_status) ==
  IF <<job.status>> = last_job_status
  THEN [event |-> << >>, last_job_status |-> last_job_status]
  ELSE [event |-> <<job_status_event(job_id, job)>>,
        last_job_status |-> <<job.status>>]

\* The helper comparing the backend's state alone, not the meta.
maybe_emit_task_state_change_state_only(results, job_id, job, last_task_state, last_task_meta) ==
  IF job.celery_task_id = << >>
  THEN [event |-> << >>, last_task_state |-> last_task_state,
        last_task_meta |-> last_task_meta]
  ELSE LET Changed(snap) ==
             IF <<snap.state>> = last_task_state
             THEN [event |-> << >>, last_task_state |-> last_task_state,
                   last_task_meta |-> last_task_meta]
             ELSE [event |-> <<task_state_event(job_id, job, snap.state, snap.meta)>>,
                   last_task_state |-> <<snap.state>>,
                   last_task_meta |-> snap.meta]
       IN Changed(get_task_snapshot(results, job.celery_task_id[1]))

\* The event, if any, and the new last_task_state and last_task_meta.
maybe_emit_task_state_change(results, job_id, job, last_task_state, last_task_meta) ==
  IF job.celery_task_id = << >>
  THEN [event |-> << >>, last_task_state |-> last_task_state,
        last_task_meta |-> last_task_meta]
  ELSE LET Changed(snap) ==
             IF <<snap.state>> = last_task_state /\ snap.meta = last_task_meta
             THEN [event |-> << >>, last_task_state |-> last_task_state,
                   last_task_meta |-> last_task_meta]
             ELSE [event |-> <<task_state_event(job_id, job, snap.state, snap.meta)>>,
                   last_task_state |-> <<snap.state>>,
                   last_task_meta |-> snap.meta]
       IN Changed(get_task_snapshot(results, job.celery_task_id[1]))

\* ------------------------------------------------------- views/stream.py
\* job.refresh_from_db(fields=[...]): these fields read again from the row.
RefreshFields == {"status", "error", "celery_task_id", "output_file"}

refresh_from_db(job, row, fields) ==
  [f \in DOMAIN job |-> IF f \in fields THEN row[f] ELSE job[f]]

\* pipeline_stream up to the StreamingHttpResponse: the request is answered
\* 401 or 404, or the job is loaded and the stream is opened.
StreamRequest(user, job_id) ==
  /\ stream.pc = "idle"
  /\ LET Reject(code, error) ==
           [NoStream EXCEPT !.pc = "rejected", !.user = user,
                            !.job_id = job_id, !.code = code,
                            !.events = <<[error |-> error]>>]
     IN stream' =
          IF user = "" THEN Reject(401, "Authentication required")
          ELSE IF job_id \notin DOMAIN db THEN Reject(404, "Job not found")
          ELSE IF db[job_id].clerk_user_id # user
          THEN Reject(404, "Job not found")
          ELSE [NoStream EXCEPT !.pc = "connect", !.user = user,
                                !.job_id = job_id, !.code = 200,
                                !.job = <<db[job_id]>>]
  /\ UNCHANGED <<db, queue, task, progress, calls, deliveries, post, http, svc, backend, reply>>

\* event_stream beginning with last_job_status set to the status the
\* connected event carries.
StreamConnectedRemembering ==
  /\ stream.pc = "connect"
  /\ stream' = [stream EXCEPT
                  !.events = <<connected_event(stream.job_id, stream.job[1])>>,
                  !.last_job_status = <<stream.job[1].status>>,
                  !.pc = "poll_job"]
  /\ UNCHANGED <<db, queue, task, progress, calls, deliveries, post, http, svc, backend, reply>>

\* event_stream begins: yield connected_event(job=job)
StreamConnected ==
  /\ stream.pc = "connect"
  /\ stream' = [stream EXCEPT
                  !.events = <<connected_event(stream.job_id, stream.job[1])>>,
                  !.pc = "poll_job"]
  /\ UNCHANGED <<db, queue, task, progress, calls, deliveries, post, http, svc, backend, reply>>

\* The first half of a turn without the break after the terminal event: the
\* loop goes on to the task snapshot and to the next turn.
StreamPollJobNoBreak ==
  /\ stream.pc = "poll_job"
  /\ LET Emit(job, change) ==
           stream' = [stream EXCEPT
             !.job = <<job>>,
             !.last_job_status = change.last_job_status,
             !.events = @ \o change.event
                          \o (IF job.status = "SUCCEEDED"
                              THEN <<succeeded_event(stream.job_id, job)>>
                              ELSE IF job.status = "FAILED"
                              THEN <<failed_event(stream.job_id, job)>>
                              ELSE << >>),
             !.pc = "poll_task"]
         Poll(job) ==
           Emit(job, maybe_emit_job_status_change(stream.job_id, job,
                                                  stream.last_job_status))
     IN Poll(refresh_from_db(stream.job[1], db[stream.job_id], RefreshFields))
  /\ UNCHANGED <<db, queue, task, progress, calls, deliveries, post, http, svc, backend, reply>>

\* The first half of a turn that handles SUCCEEDED alone: a FAILED status is
\* reported by its job_status event and the loop goes on.
StreamPollJobSucceededOnly ==
  /\ stream.pc = "poll_job"
  /\ LET Emit(job, change) ==
           stream' = [stream EXCEPT
             !.job = <<job>>,
             !.last_job_status = change.last_job_status,
             !.events = @ \o change.event
                          \o (IF job.status = "SUCCEEDED"
                              THEN <<succeeded_event(stream.job_id, job)>>
                              ELSE << >>),
             !.pc = IF job.status = "SUCCEEDED" THEN "ended" ELSE "poll_task"]
         Poll(job) ==
           Emit(job, maybe_emit_job_status_change(stream.job_id, job,
                                                  stream.last_job_status))
     IN Poll(refresh_from_db(stream.job[1], db[stream.job_id], RefreshFields))
  /\ UNCHANGED <<db, queue, task, progress, calls, deliveries, post, http, svc, backend, reply>>

\* The first half of one turn of the loop: refresh_from_db, the job_status
\* event if the status changed, and the terminal event, which ends the stream.
StreamPollJob ==
  /\ stream.pc = "poll_job"
  /\ LET Emit(job, change) ==
           stream' = [stream EXCEPT
             !.job = <<job>>,
             !.last_job_status = change.last_job_status,
             !.events = @ \o change.event
                          \o (IF job.status = "SUCCEEDED"
                              THEN <<succeeded_event(stream.job_id, job)>>
                              ELSE IF job.status = "FAILED"
                              THEN <<failed_event(stream.job_id, job)>>
                              ELSE << >>),
             !.pc = IF job.status \in {"SUCCEEDED", "FAILED"}
                    THEN "ended" ELSE "poll_task"]
         Poll(job) ==
           Emit(job, maybe_emit_job_status_change(stream.job_id, job,
                                                  stream.last_job_status))
     IN Poll(refresh_from_db(stream.job[1], db[stream.job_id], RefreshFields))
  /\ UNCHANGED <<db, queue, task, progress, calls, deliveries, post, http, svc, backend, reply>>

\* The second half followed by job.save(): every column of the row is
\* written from the stream's instance, refreshed at the start of the turn.
StreamPollTaskSaving ==
  /\ stream.pc = "poll_task"
  /\ LET Emit(change) ==
           stream' = [stream EXCEPT
             !.last_task_state = change.last_task_state,
             !.last_task_meta = change.last_task_meta,
             !.events = @ \o change.event,
             !.pc = "poll_job"]
     IN Emit(maybe_emit_task_state_change(backend, stream.job_id, stream.job[1],
                                          stream.last_task_state,
                                          stream.last_task_meta))
  /\ db' = [db EXCEPT ![stream.job_id] = stream.job[1]]
  /\ UNCHANGED <<queue, task, progress, calls, deliveries, post, http, svc, backend, reply>>

\* The second half: the task_state event if the backend's state or meta
\* changed, then time.sleep(0.5).
StreamPollTask ==
  /\ stream.pc = "poll_task"
  /\ LET Emit(change) ==
           stream' = [stream EXCEPT
             !.last_task_state = change.last_task_state,
             !.last_task_meta = change.last_task_meta,
             !.events = @ \o change.event,
             !.pc = "poll_job"]
     IN Emit(maybe_emit_task_state_change(backend, stream.job_id, stream.job[1],
                                          stream.last_task_state,
                                          stream.last_task_meta))
  /\ UNCHANGED <<db, queue, task, progress, calls, deliveries, post, http, svc, backend, reply>>

\* The response is over; the client may ask for a stream again.
StreamClose ==
  /\ stream.pc \in {"rejected", "ended"}
  /\ stream' = NoStream
  /\ UNCHANGED <<db, queue, task, progress, calls, deliveries, post, http, svc, backend, reply>>

\* ------------------------------------------------------- views/status.py
NotFound == [code |-> 404, body |-> [error |-> "Job not found"]]

Unauthenticated == [code |-> 401, body |-> [error |-> "Authentication required"]]

\* The status view answering another principal's job with 403.
StatusGetForbidden(table, user, job_id) ==
  IF user = "" THEN Unauthenticated
  ELSE IF job_id \notin DOMAIN table THEN NotFound
  ELSE IF table[job_id].clerk_user_id # user
  THEN [code |-> 403, body |-> [error |-> "Permission denied"]]
  ELSE [code |-> 200, body |-> StatusPayload(table[job_id])]

\* PipelineStatusView.get: the status code and the payload.
StatusGet(table, user, job_id) ==
  IF user = "" THEN Unauthenticated
  ELSE IF job_id \notin DOMAIN table THEN NotFound
  ELSE IF table[job_id].clerk_user_id # user THEN NotFound
  ELSE [code |-> 200, body |-> StatusPayload(table[job_id])]

GetStatus(user, job_id) ==
  /\ reply' = [view |-> "status", user |-> user, job_id |-> job_id,
               code |-> StatusGet(db, user, job_id).code,
               body |-> StatusGet(db, user, job_id).body]
  /\ UNCHANGED <<db, queue, task, progress, calls, deliveries, post, http, svc, backend, stream>>

\* ----------------------------------------------------- views/download.py
\* The test the view makes before it opens the file, on the output alone.
DownloadReadyOutputOnly(job) == job.output_file # << >>

\* if job.status != SUCCEEDED or not job.output_file: 400
DownloadReady(job) == job.status = "SUCCEEDED" /\ job.output_file # << >>

\* PipelineDownloadView.get: the status code and the payload or the file.
DownloadGet(table, user, job_id) ==
  IF user = "" THEN Unauthenticated
  ELSE IF job_id \notin DOMAIN table THEN NotFound
  ELSE IF table[job_id].clerk_user_id # user THEN NotFound
  ELSE IF ~DownloadReady(table[job_id])
  THEN [code |-> 400,
        body |-> [error |-> "Job is not ready for download. Current status",
                  status |-> table[job_id].status]]
  ELSE [code |-> 200, body |-> [file |-> table[job_id].output_file[1]]]

GetDownload(user, job_id) ==
  /\ reply' = [view |-> "download", user |-> user, job_id |-> job_id,
               code |-> DownloadGet(db, user, job_id).code,
               body |-> DownloadGet(db, user, job_id).body]
  /\ UNCHANGED <<db, queue, task, progress, calls, deliveries, post, http, svc, backend, stream>>

\* ------------------------------------------- the engine and its readers
\* A job id no row has.
UnknownJobId == "j9"

\* The lists the owner of f1 submits while readers watch: none, one and two
\* operations that succeed, a list whose second operation fails, a list
\* whose first fails, and a value that is no list.
StreamInputs ==
  { PyList(<< >>),
    PyList(<<Rename(<<"1">>, ColId(SheetS, <<"0">>, <<"A">>), <<"X">>)>>),
    PyList(<<Rename(<<"1">>, ColId(SheetS, <<"0">>, <<"A">>), <<"X">>),
             Rename(<<"2">>, ColId(SheetS, <<"0">>, <<"X">>), <<" ", "Y", " ">>)>>),
    PyList(<<Drop(<<"5">>, <<ColId(SheetS, <<"1">>, <<"B">>)>>),
             Rename(<<"7">>, ColId(SheetS, <<"2">>, <<"C">>), <<"A">>)>>),
    PyList(<<Rename(<<"7">>, ColId(SheetS, <<"2">>, <<"C">>), <<"A">>)>>),
    PyStr(<<"x">>) }

SubmitWatched ==
  /\ post.pc = "idle"
  /\ \E ops \in StreamInputs : PostCreate("u1", "f1", ops)

\* Any principal, or none, asks for any job id.
Requesters == Users \cup {""}

Requested == JobIds \cup {UnknownJobId}

Engine(j) ==
  \/ Deliver(j)
  \/ Load(j)
  \/ MarkRunning(j)
  \/ Revalidate(j)
  \/ Extract(j)
  \/ OpStart(j)
  \/ OpApply(j)
  \/ OpDone(j)
  \/ Serialize(j)
  \/ Attach(j)
  \/ SaveOutput(j)
  \/ MarkSucceeded(j)
  \/ Except(j)
  \/ StoreResult(j)

\* The submission view, the engine and one event stream at a time.
NextStream ==
  \/ SubmitWatched
  \/ PostDispatch
  \/ PostSaveTaskId
  \/ PostRespond
  \/ \E j \in JobIds : Engine(j)
  \/ \E user \in Requesters, job_id \in Requested : StreamRequest(user, job_id)
  \/ StreamConnected
  \/ StreamPollJob
  \/ StreamPollTask
  \/ StreamClose

SpecStream == Init /\ [][NextStream]_vars

\* The same, with the scheduling of the stream's generator: the server keeps
\* pulling events from event_stream while the response is open, so a stream
\* that can take a step of its loop takes it.  Nothing is assumed of the
\* worker.
SpecStreamFair ==
  /\ Init
  /\ [][NextStream]_vars
  /\ WF_vars(StreamConnected \/ StreamPollJob \/ StreamPollTask)

\* The submission view, the engine and the status and download interfaces.
NextReaders ==
  \/ SubmitWatched
  \/ PostDispatch
  \/ PostSaveTaskId
  \/ PostRespond
  \/ \E j \in JobIds : Engine(j)
  \/ \E user \in Requesters, job_id \in Requested :
       \/ GetStatus(user, job_id)
       \/ GetDownload(user, job_id)

SpecReaders == Init /\ [][NextReaders]_vars

\* The status or download response was sent.
ReplyDone ==
  /\ reply # NoReply
  /\ reply' = NoReply
  /\ UNCHANGED <<db, queue, task, progress, calls, deliveries, post, http, svc, backend, stream>>

\* The submission view, the engine and the three reader interfaces, one
\* exchange at a time at the reader interfaces: the readers keep no state
\* between requests and share none with each other.
NextInterfaces ==
  \/ SubmitWatched
  \/ PostDispatch
  \/ PostSaveTaskId
  \/ PostRespond
  \/ \E j \in JobIds : Engine(j)
  \/ /\ reply = NoReply
     /\ \/ \E user \in Requesters, job_id \in Requested :
             StreamRequest(user, job_id)
        \/ StreamConnected
        \/ StreamPollJob
        \/ StreamPollTask
        \/ StreamClose
  \/ /\ stream = NoStream
     /\ reply = NoReply
     /\ \E user \in Requesters, job_id \in Requested :
          \/ GetStatus(user, job_id)
          \/ GetDownload(user, job_id)
  \/ ReplyDone

SpecInterfaces == Init /\ [][NextInterfaces]_vars

\* The lists submitted where the schedule matters: no operation (the loop
\* is not entered), one operation that succeeds and one that fails.
FairInputs ==
  { PyList(<< >>),
    PyList(<<Rename(<<"1">>, ColId(SheetS, <<"0">>, <<"A">>), <<"X">>)>>),
    PyList(<<Rename(<<"7">>, ColId(SheetS, <<"2">>, <<"C">>), <<"A">>)>>) }

SubmitFair ==
  /\ post.pc = "idle"
  /\ \E ops \in FairInputs : PostCreate("u1", "f1", ops)

\* The submission view and the engine alone, with the scheduling the
\* deployment gives them: a worker that has a message or is inside
\* execute_pipeline keeps taking steps, and a view that accepted a request
\* runs to its response.
NextWatched ==
  \/ SubmitFair
  \/ PostDispatch
  \/ PostSaveTaskId
  \/ PostRespond
  \/ \E j \in JobIds : Engine(j)

SpecFair ==
  /\ Init
  /\ [][NextWatched]_vars
  /\ \A j \in JobIds : WF_vars(Engine(j))
  /\ WF_vars(PostDispatch \/ PostSaveTaskId \/ PostRespond)

\* ------------------------------------------- two jobs on one source file
\* Two jobs the owner of f1 submitted on it, both queued: the rows the
\* submission view left, and one worker per message.
TwoJobIds == {"j1", "j2"}

PairInputs == {ops \in StreamInputs : validate_pipeline_operations(ops).ok}

SubmittedJob(j, ops) ==
  [NewJob("f1", "u1", validate_pipeline_operations(ops).val)
     EXCEPT !.celery_task_id = <<TaskIdOf(j)>>]

TwoJobsInit ==
  /\ \E a \in PairInputs, b \in PairInputs :
       db = ("j1" :> SubmittedJob("j1", a)) @@ ("j2" :> SubmittedJob("j2", b))
  /\ queue = TwoJobIds
  /\ task = [j \in TwoJobIds |-> IdleTask]
  /\ progress = [j \in TwoJobIds |-> << >>]
  /\ calls = [j \in TwoJobIds |-> << >>]
  /\ deliveries = [j \in TwoJobIds |-> 0]
  /\ backend = [j \in TwoJobIds |-> NoResult]
  /\ post = IdlePost
  /\ http = NoExchange
  /\ stream = NoStream
  /\ reply = NoReply
  /\ svc = NoCall

NextTwoJobs == \E j \in TwoJobIds : Engine(j)

SpecTwoJobs == TwoJobsInit /\ [][NextTwoJobs]_vars

\* ------------------------------------------- the service functions alone
\* Each function of services/ called once on arguments of its own, outside
\* any job: svc holds the function's name, the arguments and, once the call
\* is over, what it returned or raised.

\* Worksheets: the uploaded one with a second data row, and one whose header
\* holds a name with a trailing blank, a number, and names differing in case.
WsABC ==
  << <<PyStr(<<"A">>), PyStr(<<"B">>), PyStr(<<"C">>)>>,
     <<PyInt(10), PyInt(20), PyInt(30)>>,
     <<PyInt(11), PyInt(21), PyInt(31)>> >>

WsMixed ==
  << <<PyStr(<<"A", " ">>), PyInt(1), PyStr(<<"a">>), PyStr(<<"B">>)>>,
     <<PyInt(1), PyInt(2), PyInt(3), PyInt(4)>> >>

Worksheets == {WsABC, WsMixed}

\* The segments column id texts are joined from, and how many of them.
MaxSegments == 4

SegPool ==
  { << >>, <<"S">>, <<" ">>, <<"0">>, <<"-", "1">>, <<" ", "2">>, <<"A", " ">> }

RECURSIVE JoinColon(_)
JoinColon(segs) ==
  IF Len(segs) = 1 THEN segs[1]
  ELSE segs[1] \o <<":">> \o JoinColon(Tail(segs))

ColumnIdTexts ==
  {JoinColon(segs) : segs \in UNION {[1..n -> SegPool] : n \in 1..MaxSegments}}

ParseArgs == {PyStr(text) : text \in ColumnIdTexts} \cup {PyInt(0), PyNone}

\* Well-formed column ids naming a sheet, a position and a header text.
ResolveIds ==
  {PyStr(ColId(sheet, order, name)) :
     sheet \in {<<"S">>, <<" ", "S">>, <<"T">>, <<"s">>},
     order \in {<<"0">>, <<"1">>, <<"2">>, <<" ", "1">>, <<"7">>},
     name \in {<<"A">>, <<"A", " ">>, <<"B">>, <<"1">>, <<"a">>}}

RenameIds ==
  {PyStr(ColId(SheetS, <<"0">>, <<"A">>)), PyStr(ColId(SheetS, <<"1">>, <<"B">>)),
   PyStr(ColId(SheetS, <<"2">>, <<"a">>)), PyStr(ColId(SheetS, <<"3">>, <<"B">>)),
   PyStr(ColId(SheetT, <<"0">>, <<"A">>)), PyStr(<<"S", ":", "A">>), PyNone}

NewNames ==
  {PyStr(<<"A">>), PyStr(<<" ", "B", " ">>), PyStr(<<"b">>), PyStr(<<"Z">>),
   PyStr(<<"A", " ">>), PyStr(<< >>), PyStr(<<" ">>), PyInt(1), PyNone}

\* The ids a drop list is made of, and how long the list may be.
MaxDropIds == 3

DropIds ==
  {PyStr(ColId(SheetS, <<"0">>, <<"A">>)), PyStr(ColId(SheetS, <<"1">>, <<"B">>)),
   PyStr(ColId(SheetS, <<"2">>, <<"C">>)), PyStr(ColId(SheetS, <<"3">>, <<"B">>)),
   PyStr(ColId(SheetS, <<"0">>, <<"A">>) \o <<" ">>),
   PyStr(ColId(SheetS, <<"1">>, <<"X">>))}

DropArgs ==
  {PyList(ids) : ids \in UNION {[1..n -> DropIds] : n \in 0..MaxDropIds}}
    \cup {PyStr(ColId(SheetS, <<"0">>, <<"A">>)), PyNone,
          PyList(<<PyStr(ColId(SheetS, <<"0">>, <<"A">>)), PyInt(1)>>),
          PyList(<<PyStr(ColId(SheetS, <<"0">>, <<"A">>)), PyStr(<<" ">>)>>)}

\* The elements an operation list handed to the validator is made of: valid
\* operations whose ids differ in case or in surrounding blanks, and elements
\* breaking one rule each.
ValidatorOps ==
  { Rename(<<"a">>, ColId(SheetS, <<"0">>, <<"A">>), <<"X">>),
    Rename(<<"A">>, ColId(SheetS, <<"1">>, <<"B">>), <<"Y">>),
    Rename(<<" ", "a">>, ColId(SheetS, <<"2">>, <<"C">>), <<"Z">>),
    Drop(<<"b">>, <<ColId(SheetS, <<"1">>, <<"B">>)>>),
    Drop(<<"a", " ">>, <<ColId(SheetS, <<"0">>, <<"A">>)>>),
    RawOp(<<"c">>, StrRenameColumn, [columnId |-> PyInt(0), newName |-> PyNone]),
    RawOp(<< >>, StrDropColumn, [columnIds |-> PyList(<< >>)]),
    RawOp(<<" ">>, StrDropColumn, [columnIds |-> PyList(<< >>)]),
    RawOp(<<"d">>, <<"s", "u", "m">>, [columnIds |-> PyList(<< >>)]),
    RawOp(<<"e">>, StrRenameColumn, [columnId |-> PyStr(<<"x">>)]),
    RawOp(<<"f">>, StrRenameColumn,
          [columnId |-> PyStr(<<"x">>), newName |-> PyStr(<<"y">>),
           extra |-> PyInt(1)]),
    RawOp(<<"g">>, StrRenameColumn, [columnIds |-> PyList(<< >>)]),
    RawOp(<<"h">>, StrDropColumn,
          [columnId |-> PyStr(<<"x">>), newName |-> PyStr(<<"y">>)]),
    PyDict([id |-> PyStr(<<"i">>), operationId |-> PyStr(StrDropColumn)]),
    PyDict([id |-> PyStr(<<"j">>), operationId |-> PyStr(StrDropColumn),
            params |-> PyDict([columnIds |-> PyList(<< >>)]),
            note |-> PyStr(<<"n">>)]),
    PyDict([id |-> PyStr(<<"k">>), operationId |-> PyStr(StrDropColumn),
            params |-> PyList(<< >>)]),
    PyDict([id |-> PyStr(<<"l">>), operationId |-> PyInt(1),
            params |-> PyDict([columnIds |-> PyList(<< >>)])]),
    PyDict([id |-> PyInt(1), operationId |-> PyStr(StrDropColumn),
            params |-> PyDict([columnIds |-> PyList(<< >>)])]),
    PyStr(<<"x">>) }

ValidatorArgs ==
  {PyList(ops) : ops \in UNION {[1..n -> ValidatorOps] : n \in 0..MaxOps}}
    \cup {PyNone, PyDict([id |-> PyStr(<<"a">>)])}

Call(fn, args) == [fn |-> fn, args |-> args, ret |-> << >>]

SvcInit ==
  /\ Quiescent
  /\ \/ \E a \in ValidatorArgs : svc = Call("validate_pipeline_operations", <<a>>)
     \/ \E a \in ParseArgs : svc = Call("parse_column_id", <<a>>)
     \/ \E ws \in Worksheets, sheet \in {SheetS, SheetT}, id \in ResolveIds :
          svc = Call("resolve_column_id", <<ws, sheet, id>>)
     \/ \E ws \in Worksheets, id \in RenameIds, name \in NewNames :
          svc = Call("apply_rename_column", <<ws, SheetS, id, name>>)
     \/ \E ws \in Worksheets, ids \in DropArgs :
          svc = Call("apply_drop_column", <<ws, SheetS, ids>>)

Pending(fn) == svc.fn = fn /\ svc.ret = << >>

Return(result) ==
  /\ svc' = [svc EXCEPT !.ret = <<result>>]
  /\ UNCHANGED <<db, queue, task, progress, calls, deliveries, post, http, backend, stream, reply>>

CallValidate ==
  /\ Pending("validate_pipeline_operations")
  /\ Return(validate_pipeline_operations(svc.args[1]))

CallParse ==
  /\ Pending("parse_column_id")
  /\ Return(parse_column_id(svc.args[1]))

CallResolve ==
  /\ Pending("resolve_column_id")
  /\ Return(resolve_column_id(svc.args[1], svc.args[2], HeaderRowIdx, svc.args[3]))

CallRename ==
  /\ Pending("apply_rename_column")
  /\ Return(apply_rename_column(svc.args[1], HeaderRowIdx, svc.args[2],
                                svc.args[3], svc.args[4]))

CallDrop ==
  /\ Pending("apply_drop_column")
  /\ Return(apply_drop_column(svc.args[1], HeaderRowIdx, svc.args[2], svc.args[3]))

SvcNext == CallValidate \/ CallParse \/ CallResolve \/ CallRename \/ CallDrop

SpecServices == SvcInit /\ [][SvcNext]_vars

\* The call of fn is over; its arguments and its outcome.
Returned(fn) == svc.fn = fn /\ svc.ret # << >>

\* ================================================================ claims
\* What the properties below read from a state.
Terminal == {"SUCCEEDED", "FAILED"}
Ended(j) == task[j].pc \in {"returned", "raised"}

\* The operation list stored on the job row.
StoredOps(j) == db[j].pipeline_operations.v

\* The worksheet the run of job j started from.
SourceSheet(j) == Files[db[j].file].workbook[Files[db[j].file].selected_sheet]

\* The worksheet after the handlers of ops[1..n] ran in list order on ws.
RECURSIVE ApplyInOrder(_, _, _, _)
ApplyInOrder(ws, selected_sheet, ops, n) ==
  IF n = 0 THEN ws
  ELSE Dispatch(ApplyInOrder(ws, selected_sheet, ops, n - 1), selected_sheet,
                ops[n]).val

\* The handler of the operation in flight raised: the last progress event is
\* its "start", its handler was called, and control is in the except clause
\* or beyond.
HandlerRaised(j) ==
  /\ task[j].pc \in {"except", "raised"}
  /\ Len(calls[j]) >= 1
  /\ Len(progress[j]) = 2 * Len(calls[j]) - 1

\* C1: in every state of the job row a reader can observe, the output
\* artifact is attached if and only if status is SUCCEEDED.
C1_OutputIffSucceeded ==
  \A j \in DOMAIN db :
    StatusPayload(db[j]).has_output <=> StatusPayload(db[j]).status = "SUCCEEDED"

\* C2: whatever the sequence of engine invocations on a job, status only
\* moves forward along PENDING -> RUNNING -> {SUCCEEDED, FAILED}: it never
\* returns to PENDING and a terminal status never changes again.
StatusRank(status) ==
  CASE status = "PENDING" -> 0 [] status = "RUNNING" -> 1 [] OTHER -> 2

C2_StatusMonotonic ==
  [][\A j \in DOMAIN db :
       /\ StatusRank(db[j].status) <= StatusRank(db'[j].status)
       /\ db[j].status \in Terminal => db'[j].status = db[j].status]_vars

\* C3: in every reachable state of a job row, the error field is set if and
\* only if status is FAILED.
C3_ErrorIffFailed ==
  \A j \in DOMAIN db : db[j].error # << >> <=> db[j].status = "FAILED"

\* The sheet name job j runs on, and the handler of its k-th stored
\* operation applied to the worksheet its first k-1 operations leave.
SelectedSheet(j) == Files[db[j].file].selected_sheet

HandlerResult(j, k) ==
  Dispatch(ApplyInOrder(SourceSheet(j), SelectedSheet(j), StoredOps(j), k - 1),
           SelectedSheet(j), StoredOps(j)[k])

LoopCompleted(j) ==
  /\ task[j].ws # << >>
  /\ Len(progress[j]) = 2 * Len(StoredOps(j))

C6_EveryFailureMarksFailed ==
  \A j \in DOMAIN db :
    task[j].pc = "raised" =>
      /\ db[j].status = "FAILED"
      /\ db[j].error = task[j].exc
      /\ db[j].output_file = << >>
      /\ j \notin queue

\* C7: when operation k raises, the loop stops at once: the worksheet is the
\* one operations 1..k-1 left, no handler is called and no progress event is
\* emitted for an operation after k, and no "done" is emitted for k.
C7_FailureStopsLoop ==
  \A j \in DOMAIN db :
    \A k \in 1..Len(calls[j]) :
      ~HandlerResult(j, k).ok =>
        /\ task[j].pc \in {"except", "raised"}
        /\ Len(calls[j]) = k
        /\ \A c \in 1..Len(calls[j]) : calls[j][c] <= k
        /\ task[j].ws =
             ApplyInOrder(SourceSheet(j), SelectedSheet(j), StoredOps(j), k - 1)
        /\ Len(progress[j]) = 2 * k - 1
        /\ \A m \in 1..Len(progress[j]) : progress[j][m].index <= k
        /\ ~\E m \in 1..Len(progress[j]) :
              progress[j][m].index = k /\ progress[j][m].phase = "done"

C7_Witness ==
  \E j \in DOMAIN db :
    /\ HandlerRaised(j)
    /\ Len(StoredOps(j)) = 2 /\ Len(calls[j]) = 1
    /\ ~HandlerResult(j, 1).ok
    /\ Len(progress[j]) = 1
    /\ task[j].ws = SourceSheet(j)

\* C8: the handlers run in the stored list order, one at a time, and the
\* progress events are start(1), done(1), start(2), done(2), ..., each with
\* its index in 1..n, total = n and the id and operationId of the stored
\* operation of that index; done(i) follows the return of handler i.
C8_OrderedProgress ==
  \A j \in DOMAIN db :
    LET n == Len(StoredOps(j)) IN
    /\ Len(calls[j]) <= n
    /\ \A c \in 1..Len(calls[j]) : calls[j][c] = c
    /\ Len(calls[j]) >= 1 =>
         task[j].ws = ApplyInOrder(SourceSheet(j), SelectedSheet(j),
                                   StoredOps(j), Len(calls[j]))
    /\ Len(progress[j]) <= 2 * n
    /\ \A m \in 1..Len(progress[j]) :
         /\ progress[j][m].index = (m + 1) \div 2
         /\ progress[j][m].index \in 1..n
         /\ progress[j][m].total = n
         /\ progress[j][m].id = StoredOps(j)[(m + 1) \div 2].v["id"]
         /\ progress[j][m].operationId =
              StoredOps(j)[(m + 1) \div 2].v["operationId"]
         /\ progress[j][m].phase = IF m % 2 = 1 THEN "start" ELSE "done"
         /\ m % 2 = 0 => /\ m \div 2 <= Len(calls[j])
                         /\ HandlerResult(j, m \div 2).ok
    /\ Len(calls[j]) <= (Len(progress[j]) + 1) \div 2

C8_Witness ==
  \E j \in DOMAIN db :
    /\ task[j].pc = "returned"
    /\ Len(StoredOps(j)) = 2
    /\ calls[j] = <<1, 2>>
    /\ Len(progress[j]) = 4
    /\ progress[j][3].index = 2 /\ progress[j][3].phase = "start"
    /\ progress[j][4].index = 2 /\ progress[j][4].phase = "done"
    /\ progress[j][1].id # progress[j][3].id

\* The column ids operation op names, in the order its handler resolves them.
ColumnIdsOf(op) ==
  IF op.v["operationId"].v = StrRenameColumn
  THEN <<op.v["params"].v["columnId"]>>
  ELSE op.v["params"].v["columnIds"].v

\* The header the k-th operation of job j meets: the uploaded one as changed
\* by operations 1..k-1.
CurrentSheet(j, k) ==
  ApplyInOrder(SourceSheet(j), SelectedSheet(j), StoredOps(j), k - 1)

\* The positions in ids that do not resolve on worksheet ws.
Unresolved(j, ws, ids) ==
  {p \in 1..Len(ids) :
     ~resolve_column_id(ws, SelectedSheet(j), HeaderRowIdx, ids[p]).ok}

ResolutionErrors ==
  {"columnId header mismatch",
   "columnId sheetName does not match selected sheet"}

\* C9: the column ids of operation k are resolved on the header as operations
\* 1..k-1 of the run left it.  If one of them does not resolve there, the
\* handler raises, no later operation runs and the job fails, with the
\* resolution error of the first such id (unless the handler rejected its
\* arguments before resolving); if all of them resolve there, the operation
\* does not fail with a resolution error, whatever the uploaded header was.
C9_ResolvedOnCurrentHeader ==
  \A j \in DOMAIN db :
    \A k \in 1..Len(calls[j]) :
      LET ids == ColumnIdsOf(StoredOps(j)[k])
          bad == Unresolved(j, CurrentSheet(j, k), ids)
      IN /\ bad # {} =>
              /\ k = Len(calls[j])
              /\ HandlerRaised(j)
              /\ task[j].pc = "raised" => db[j].status = "FAILED"
              /\ Cardinality({ids[p] : p \in 1..Len(ids)}) = Len(ids) =>
                   task[j].exc =
                     <<resolve_column_id(CurrentSheet(j, k), SelectedSheet(j),
                                         HeaderRowIdx,
                                         ids[CHOOSE p \in bad :
                                               \A q \in bad : p <= q]).err>>
         /\ (bad = {} /\ k = Len(calls[j]) /\ HandlerRaised(j)) =>
              task[j].exc[1] \notin ResolutionErrors

\* The second operation names a column by the uploaded header; the first
\* operation changed that header, and the job failed on the mismatch.
C9_Witness ==
  \E j \in DOMAIN db :
    /\ task[j].pc = "raised" /\ HandlerRaised(j)
    /\ Len(calls[j]) = 2
    /\ Unresolved(j, CurrentSheet(j, 2), ColumnIdsOf(StoredOps(j)[2])) # {}
    /\ Unresolved(j, SourceSheet(j), ColumnIdsOf(StoredOps(j)[2])) = {}
    /\ task[j].exc = <<"columnId header mismatch">>
    /\ db[j].status = "FAILED"

\* Two operations of the list carry the same id.
HasDuplicateId(ops) ==
  /\ IsList(ops)
  /\ \E a, b \in 1..Len(ops.v) :
       /\ a < b
       /\ IsDict(ops.v[a]) /\ IsDict(ops.v[b])
       /\ "id" \in DOMAIN ops.v[a].v /\ "id" \in DOMAIN ops.v[b].v
       /\ ops.v[a].v["id"] = ops.v[b].v["id"]

\* C10: a submission whose operation list fails validate_pipeline_operations,
\* in particular one with two operations of the same id, is answered with an
\* error, creates no job row and dispatches no task; when the request names
\* a principal the answer is the 400 of a validation error (a request
\* without a principal is answered 401 before the list is looked at).
C10_InvalidListCreatesNoJob ==
  [][(post.pc = "idle" /\ post'.pc # "idle"
        /\ (~validate_pipeline_operations(http'.ops).ok
              \/ HasDuplicateId(http'.ops))) =>
       /\ post'.pc = "respond"
       /\ db' = db
       /\ queue' = queue
       /\ http'.code \in {400, 401}
       /\ http'.user # "" => http'.code = 400]_vars

C10_Witness ==
  /\ post.pc = "respond"
  /\ http.user # "" /\ http.file_id \in DOMAIN Files
  /\ HasDuplicateId(http.ops)
  /\ http.code = 400 /\ http.error = "Duplicate operation id"
  /\ DOMAIN db = {} /\ queue = {}

\* A drop_column operation whose columnIds list names one id twice.
HasDuplicateColumnIds(op) ==
  /\ IsDict(op)
  /\ DOMAIN op.v = {"id", "operationId", "params"}
  /\ op.v["operationId"] = PyStr(StrDropColumn)
  /\ IsDict(op.v["params"])
  /\ DOMAIN op.v["params"].v = {"columnIds"}
  /\ IsList(op.v["params"].v["columnIds"])
  /\ \E a, b \in 1..Len(op.v["params"].v["columnIds"].v) :
       /\ a < b
       /\ op.v["params"].v["columnIds"].v[a] = op.v["params"].v["columnIds"].v[b]

\* C11: a submission containing a drop_column operation whose columnIds list
\* has a duplicate entry is rejected at submission: the view answers with an
\* error and no job row exists for it.
C11_DuplicateColumnIdsRejected ==
  (/\ post.pc # "idle"
   /\ IsList(http.ops)
   /\ \E k \in 1..Len(http.ops.v) : HasDuplicateColumnIds(http.ops.v[k]))
    => (post.pc = "respond" /\ http.code \in {400, 401, 404, 500}
          /\ DOMAIN db = {})

\* What a call of the validator was given and what it gave back.
ValidatorInput == svc.args[1]
ValidatorOutput == svc.ret[1]

\* C12: for every valid non-empty operation list the validator returns a
\* list of the same length whose i-th element has exactly the id string, the
\* operationId and the params of the i-th input element.
C12_IdsPreserved ==
  (/\ Returned("validate_pipeline_operations")
   /\ ValidatorOutput.ok
   /\ ValidatorInput.v # << >>) =>
    /\ Len(ValidatorOutput.val.v) = Len(ValidatorInput.v)
    /\ \A i \in 1..Len(ValidatorInput.v) :
         /\ ValidatorOutput.val.v[i].v["id"] = ValidatorInput.v[i].v["id"]
         /\ ValidatorOutput.val.v[i].v["operationId"] =
              ValidatorInput.v[i].v["operationId"]
         /\ ValidatorOutput.val.v[i].v["params"] = ValidatorInput.v[i].v["params"]

\* An element obeying every rule of the validator but the uniqueness of ids:
\* a mapping with exactly the three keys, a non-empty string id, a supported
\* operationId and a params mapping with exactly the keys of that operation.
ElementWellFormed(op) ==
  /\ IsDict(op)
  /\ DOMAIN op.v = {"id", "operationId", "params"}
  /\ IsStr(op.v["operationId"])
  /\ op.v["operationId"].v \in {StrRenameColumn, StrDropColumn}
  /\ IsDict(op.v["params"])
  /\ DOMAIN op.v["params"].v =
       IF op.v["operationId"].v = StrRenameColumn
       THEN {"columnId", "newName"} ELSE {"columnIds"}

\* The id is a string holding more than whitespace.
HasNonEmptyStringId(op) ==
  /\ IsStr(op.v["id"])
  /\ \E k \in 1..Len(op.v["id"].v) : op.v["id"].v[k] \notin Whitespace

\* C13: given all other rules hold, the validator rejects a list if and only
\* if two of its elements carry ids that are equal as exact strings; ids that
\* differ in any character (case, surrounding whitespace) count as distinct.
C13_RejectsIffExactDuplicate ==
  (/\ Returned("validate_pipeline_operations")
   /\ IsList(ValidatorInput)
   /\ \A i \in 1..Len(ValidatorInput.v) :
        ElementWellFormed(ValidatorInput.v[i])
          /\ HasNonEmptyStringId(ValidatorInput.v[i])) =>
    (~ValidatorOutput.ok <=>
       \E a, b \in 1..Len(ValidatorInput.v) :
         a < b /\ ValidatorInput.v[a].v["id"] = ValidatorInput.v[b].v["id"])

\* C14: the validator accepts a list only if every element is a mapping with
\* exactly the keys id, operationId and params, a supported operationId, and
\* a params mapping whose key set is exactly the one of that operationId; an
\* element with a missing or an extra key at either level makes it reject.
C14_AcceptsOnlyExactShapes ==
  Returned("validate_pipeline_operations") =>
    /\ ValidatorOutput.ok =>
         /\ IsList(ValidatorInput)
         /\ \A i \in 1..Len(ValidatorInput.v) :
              ElementWellFormed(ValidatorInput.v[i])
    /\ (/\ IsList(ValidatorInput)
        /\ \E i \in 1..Len(ValidatorInput.v) :
             /\ IsDict(ValidatorInput.v[i])
             /\ ~ElementWellFormed(ValidatorInput.v[i])) => ~ValidatorOutput.ok

C14_Witness ==
  /\ Returned("validate_pipeline_operations")
  /\ ~ValidatorOutput.ok
  /\ ValidatorOutput.err = "Invalid params for operationId"
  /\ Len(ValidatorInput.v) = 2
  /\ ElementWellFormed(ValidatorInput.v[1])
  /\ DOMAIN ValidatorInput.v[2].v = {"id", "operationId", "params"}
  /\ "extra" \in DOMAIN ValidatorInput.v[2].v["params"].v

\* The positions of the colons of a text, and the text cut at its two colons.
Colons(text) == {k \in 1..Len(text) : text[k] = ":"}

FirstColon(text) == CHOOSE c \in Colons(text) : \A d \in Colons(text) : c <= d
LastColon(text) == CHOOSE c \in Colons(text) : \A d \in Colons(text) : d <= c

SheetSegment(text) == SubSeq(text, 1, FirstColon(text) - 1)
OrderSegment(text) == SubSeq(text, FirstColon(text) + 1, LastColon(text) - 1)
NameSegment(text) == SubSeq(text, LastColon(text) + 1, Len(text))

\* Exactly three colon-separated segments, none empty, the middle one the
\* text of an integer that is not negative.
WellFormedColumnId(text) ==
  /\ Cardinality(Colons(text)) = 2
  /\ SheetSegment(text) # << >>
  /\ OrderSegment(text) # << >>
  /\ NameSegment(text) # << >>
  /\ IntOfStr(OrderSegment(text)) # << >>
  /\ IntOfStr(OrderSegment(text))[1] >= 0

FieldsOf(text) ==
  [sheet_name |-> SheetSegment(text),
   column_order |-> IntOfStr(OrderSegment(text))[1],
   column_name |-> NameSegment(text)]

C16_ResolvesIffExactMatch ==
  Returned("resolve_column_id") =>
    LET Holds(ws, selected_sheet, column_id, parsed, ret) ==
          IF ~parsed.ok THEN ~ret.ok
          ELSE /\ ret.ok <=>
                    /\ parsed.val.sheet_name = selected_sheet
                    /\ CellValue(ws, HeaderRowIdx, parsed.val.column_order + 1)
                         = PyStr(NameSegment(column_id.v))
               /\ ret.ok => ret.val = parsed.val.column_order + 1
    IN Holds(svc.args[1], svc.args[2], svc.args[3],
             parse_column_id(svc.args[3]), svc.ret[1])

\* A call of a handler: the worksheet it was given and its outcome.
HandlerSheet == svc.args[1]
HandlerOutcome == svc.ret[1]

\* The call of apply_rename_column got a usable newName and a column id that
\* resolves on its worksheet.
RenameResolves ==
  /\ IsStr(svc.args[4]) /\ Strip(svc.args[4].v) # << >>
  /\ resolve_column_id(HandlerSheet, svc.args[2], HeaderRowIdx, svc.args[3]).ok

RenameTarget ==
  resolve_column_id(HandlerSheet, svc.args[2], HeaderRowIdx, svc.args[3]).val

RenameName == PyStr(Strip(svc.args[4].v))

\* Some header cell other than the target already holds the trimmed newName.
NameTaken ==
  \E c \in 1..Len(HandlerSheet[HeaderRowIdx]) :
    c # RenameTarget /\ HandlerSheet[HeaderRowIdx][c] = RenameName

\* C17: whenever a header cell at a position other than the target already
\* equals the trimmed newName exactly, apply_rename_column fails with a
\* collision error and leaves every header cell as it was; a name differing
\* from every other header cell (be it only in case) is no collision.
C17_RenameCollisionFails ==
  (Returned("apply_rename_column") /\ RenameResolves) =>
    /\ NameTaken =>
         /\ ~HandlerOutcome.ok
         /\ HandlerOutcome.err = "Rename collision"
         /\ HandlerOutcome.val[HeaderRowIdx] = HandlerSheet[HeaderRowIdx]
    /\ ~NameTaken => HandlerOutcome.ok

C17_Witness ==
  /\ Returned("apply_rename_column") /\ RenameResolves
  /\ NameTaken
  /\ svc.args[4].v # Strip(svc.args[4].v)
  /\ HandlerOutcome.err = "Rename collision"
  /\ HandlerOutcome.val = HandlerSheet

\* C18: a successful apply_rename_column sets the header cell at the resolved
\* position to the trimmed newName and leaves every other cell of the
\* worksheet, header and data, the target column's data included, unchanged.
C18_RenameTouchesOneCell ==
  (Returned("apply_rename_column") /\ HandlerOutcome.ok) =>
    /\ RenameResolves
    /\ Len(HandlerOutcome.val) = Len(HandlerSheet)
    /\ \A r \in 1..Len(HandlerSheet) :
         /\ Len(HandlerOutcome.val[r]) = Len(HandlerSheet[r])
         /\ \A c \in 1..Len(HandlerSheet[r]) :
              HandlerOutcome.val[r][c] =
                IF r = HeaderRowIdx /\ c = RenameTarget
                THEN RenameName ELSE HandlerSheet[r][c]

C18_Witness ==
  /\ Returned("apply_rename_column") /\ HandlerOutcome.ok
  /\ Len(HandlerSheet) > 1
  /\ svc.args[4].v # Strip(svc.args[4].v)
  /\ HandlerOutcome.val[HeaderRowIdx][RenameTarget] = RenameName
  /\ HandlerOutcome.val # HandlerSheet

\* The call of apply_drop_column got a non-empty list of distinct strings.
DropListValid ==
  /\ IsList(svc.args[3]) /\ svc.args[3].v # << >>
  /\ \A k \in 1..Len(svc.args[3].v) :
       IsStr(svc.args[3].v[k]) /\ Strip(svc.args[3].v[k].v) # << >>
  /\ \A a, b \in 1..Len(svc.args[3].v) :
       a # b => svc.args[3].v[a] # svc.args[3].v[b]

DropResolution(k) ==
  resolve_column_id(HandlerSheet, svc.args[2], HeaderRowIdx, svc.args[3].v[k])

DropAllResolve ==
  DropListValid /\ \A k \in 1..Len(svc.args[3].v) : DropResolution(k).ok

DropPositions == {DropResolution(k).val : k \in 1..Len(svc.args[3].v)}

\* The cells of a row outside the given positions, in their order in the row.
Survivors(row, positions) ==
  LET Kept[i \in 0..Len(row)] ==
        IF i = 0 THEN << >>
        ELSE IF i \in positions THEN Kept[i - 1]
        ELSE Append(Kept[i - 1], row[i])
  IN Kept[Len(row)]

Reversed(seq) == [k \in 1..Len(seq) |-> seq[Len(seq) + 1 - k]]

\* C19: for every list of distinct column ids that all resolve on the
\* worksheet, in whatever order they are given, apply_drop_column removes
\* exactly the columns at the resolved positions: every row, header and data,
\* is left with its other cells in their original order, and the same list
\* in reverse order gives the same worksheet.
C19_DropRemovesResolvedColumns ==
  (Returned("apply_drop_column") /\ DropAllResolve) =>
    /\ HandlerOutcome.ok
    /\ HandlerOutcome.val =
         [r \in 1..Len(HandlerSheet) |-> Survivors(HandlerSheet[r], DropPositions)]
    /\ apply_drop_column(HandlerSheet, HeaderRowIdx, svc.args[2],
                         PyList(Reversed(svc.args[3].v))) = HandlerOutcome

\* Two columns given with the higher position first were dropped.
C19_Witness ==
  /\ Returned("apply_drop_column") /\ DropAllResolve
  /\ Len(svc.args[3].v) = 2
  /\ DropResolution(1).val > DropResolution(2).val
  /\ HandlerOutcome.ok
  /\ Len(HandlerOutcome.val[HeaderRowIdx]) = Len(HandlerSheet[HeaderRowIdx]) - 2
  /\ Len(HandlerOutcome.val) = Len(HandlerSheet)

\* C20: when apply_rename_column or apply_drop_column raises, the worksheet
\* is as it was before the call (every cell reads as before); a drop whose
\* list holds one id that does not resolve on the worksheet as given raises,
\* whichever ids precede it.
C20_HandlersAtomicOnFailure ==
  /\ (Returned("apply_rename_column") /\ ~HandlerOutcome.ok) =>
       HandlerOutcome.val = HandlerSheet
  /\ (Returned("apply_drop_column") /\ ~HandlerOutcome.ok) =>
       HandlerOutcome.val = HandlerSheet
  /\ (Returned("apply_drop_column") /\ DropListValid) =>
       (HandlerOutcome.ok <=> DropAllResolve)

\* The first id of a drop list resolves, a later one does not: the call
\* raised and no column is gone.
C20_Witness ==
  /\ Returned("apply_drop_column") /\ DropListValid
  /\ Len(svc.args[3].v) >= 2
  /\ DropResolution(1).ok
  /\ ~DropResolution(Len(svc.args[3].v)).ok
  /\ ~HandlerOutcome.ok
  /\ HandlerOutcome.val = HandlerSheet
\* C21: two jobs created on the same source file and run concurrently by
\* different workers each produce, in every interleaving, what they produce
\* alone: at every point of a run its worksheet is the uploaded sheet with
\* the job's own operations applied so far, a run that returns attached the
\* sheet its own operations leave, and a run whose handler raised stored the
\* error that operation raises on the job's own sheet.
C21_JobsIsolated ==
  \A j \in DOMAIN db :
    /\ task[j].ws # << >> =>
         task[j].ws = ApplyInOrder(SourceSheet(j), SelectedSheet(j),
                                   StoredOps(j), Len(calls[j]))
    /\ task[j].pc = "returned" =>
         db[j].output_file =
           <<ApplyInOrder(SourceSheet(j), SelectedSheet(j), StoredOps(j),
                          Len(StoredOps(j)))>>
    /\ (task[j].pc = "raised" /\ HandlerRaised(j)) =>
         /\ ~HandlerResult(j, Len(calls[j])).ok
         /\ db[j].error = <<HandlerResult(j, Len(calls[j])).err>>

\* Both runs are inside their loops on the same file, each with a worksheet
\* its own first operation changed, and the two worksheets differ.
C21_Witness ==
  /\ DOMAIN db = TwoJobIds
  /\ db["j1"].file = db["j2"].file
  /\ task["j1"].pc = "done" /\ task["j2"].pc = "apply"
  /\ Len(calls["j1"]) = 1 /\ Len(calls["j2"]) = 1
  /\ task["j1"].ws # SourceSheet("j1") /\ task["j2"].ws # SourceSheet("j2")
  /\ task["j1"].ws # task["j2"].ws

\* The names of the events a stream sent, in order.
EventNames(events) == [k \in 1..Len(events) |-> events[k].event]

\* The stream was opened on a job whose row said SUCCEEDED when the view
\* loaded it.
OpenedOnSucceeded ==
  /\ stream.pc \in {"poll_job", "poll_task", "ended"}
  /\ stream.events[1].event = "connected"
  /\ stream.events[1].status = "SUCCEEDED"

\* C22: a stream opened on a job that is already SUCCEEDED at connect time
\* emits exactly connected followed by succeeded and then closes, with no
\* job_status event in between.
C22_ConnectedThenSucceededOnly ==
  (OpenedOnSucceeded /\ stream.pc = "ended") =>
    EventNames(stream.events) = <<"connected", "succeeded">>

\* The generator of an accepted stream request is running or has ended.
Streaming == stream.pc \in {"poll_job", "poll_task", "ended"}

TerminalEvents == {"succeeded", "failed"}

\* C23: in every stream connected is the first event and is emitted once; at
\* most one terminal event is emitted, succeeded only when the status the
\* stream read is SUCCEEDED and failed only when it is FAILED, and it is the
\* last event: the stream has ended and nothing follows it.
C23_ConnectedFirstTerminalLast ==
  Streaming =>
    /\ stream.events[1].event = "connected"
    /\ \A k \in 2..Len(stream.events) : stream.events[k].event # "connected"
    /\ \A k \in 1..Len(stream.events) :
         stream.events[k].event \in TerminalEvents =>
           /\ k = Len(stream.events)
           /\ stream.pc = "ended"
           /\ stream.job[1].status = stream.events[k].status
           /\ stream.events[k].status =
                IF stream.events[k].event = "succeeded"
                THEN "SUCCEEDED" ELSE "FAILED"
    /\ stream.pc = "ended" =>
         stream.events[Len(stream.events)].event \in TerminalEvents

\* A stream that watched a run fail: connected, then job_status and
\* task_state events, then failed as the last one.
C23_Witness ==
  /\ stream.pc = "ended"
  /\ Len(stream.events) >= 5
  /\ stream.events[Len(stream.events)].event = "failed"
  /\ \E k \in 2..Len(stream.events) : stream.events[k].event = "task_state"
  /\ stream.events[2].event = "job_status" /\ stream.events[2].status = "PENDING"

\* The job_status events among the events of a stream, in order.
IsJobStatus(e) == e.event = "job_status"

JobStatuses(events) == SelectSeq(events, IsJobStatus)

\* The events a step of the stream appended.
Emitted == SubSeq(stream'.events, Len(stream.events) + 1, Len(stream'.events))

\* The stream makes the first half of a turn: it reads the row.
PollsJob == stream.pc = "poll_job" /\ stream'.pc # "poll_job"

\* C24: job_status is edge-triggered.  In a poll the stream emits a
\* job_status event, carrying the status read, exactly when that status
\* differs from the one the previous job_status event of the stream carried
\* (or there is none yet), so no two consecutive job_status events of a
\* stream carry the same status.
C24_JobStatusEdgeTriggered ==
  /\ [][PollsJob =>
         LET Earlier == JobStatuses(stream.events)
             Sent == JobStatuses(Emitted)
             Read == db[stream.job_id].status
         IN /\ Len(Sent) <= 1
            /\ Len(Sent) = 1 <=>
                 (Earlier = << >> \/ Earlier[Len(Earlier)].status # Read)
            /\ Len(Sent) = 1 => Sent[1].status = Read]_vars
  /\ [](Streaming =>
         \A k \in 1..(Len(JobStatuses(stream.events)) - 1) :
           JobStatuses(stream.events)[k].status
             # JobStatuses(stream.events)[k + 1].status)

\* A stream that saw the job PENDING, RUNNING and SUCCEEDED, with polls in
\* between that emitted no job_status event.
C24_Witness ==
  /\ stream.pc = "ended"
  /\ Len(JobStatuses(stream.events)) = 3
  /\ JobStatuses(stream.events)[1].status = "PENDING"
  /\ JobStatuses(stream.events)[2].status = "RUNNING"
  /\ JobStatuses(stream.events)[3].status = "SUCCEEDED"
  /\ Len(stream.events) >= 8

\* The task_state events among the events of a stream, in order.
IsTaskState(e) == e.event = "task_state"

TaskStates(events) == SelectSeq(events, IsTaskState)

\* The (state, meta) pair a task_state event carries.
PairOf(e) == <<e.state, e.meta>>

\* The stream makes the second half of a turn: it asks the result backend.
PollsTask == stream.pc = "poll_task" /\ stream'.pc # "poll_task"

\* C25: in a poll the stream emits a task_state event only if the job has a
\* task handle and the backend's (state, meta) pair differs from the pair
\* the previous task_state event of the stream carried (or there is none
\* yet); the event carries the backend's pair.  It emits none while the job
\* has no task handle and none when state and meta are both unchanged, so
\* no two consecutive task_state events carry the same pair.
C25_TaskStateOnChange ==
  /\ [][PollsTask =>
         LET Earlier == TaskStates(stream.events)
             Sent == TaskStates(Emitted)
             Handle == stream.job[1].celery_task_id
             Read == get_task_snapshot(backend, TaskIdOf(stream.job_id))
         IN /\ Len(Sent) <= 1
            /\ Len(Sent) = 1 <=>
                 /\ Handle # << >>
                 /\ \/ Earlier = << >>
                    \/ PairOf(Earlier[Len(Earlier)]) # <<Read.state, Read.meta>>
            /\ Len(Sent) = 1 =>
                 /\ db[stream.job_id].celery_task_id # << >>
                 /\ Sent[1].task_id = Handle
                 /\ PairOf(Sent[1]) = <<Read.state, Read.meta>>]_vars
  /\ [](Streaming =>
         \A k \in 1..(Len(TaskStates(stream.events)) - 1) :
           PairOf(TaskStates(stream.events)[k])
             # PairOf(TaskStates(stream.events)[k + 1]))

\* A stream opened before the job had a task handle, which polled without
\* one and later sent three task_state events, two of them with state
\* PROGRESS and different metas.
C25_Witness ==
  /\ Streaming
  /\ stream.events[1].task_id = << >>
  /\ stream.last_job_status # << >>
  /\ Len(TaskStates(stream.events)) >= 3
  /\ \E k \in 1..(Len(TaskStates(stream.events)) - 1) :
       /\ TaskStates(stream.events)[k].state = "PROGRESS"
       /\ TaskStates(stream.events)[k + 1].state = "PROGRESS"

\* The stream sent a job_status event carrying a terminal status, or a
\* succeeded or failed event.
SentTerminal ==
  /\ Streaming
  /\ \E k \in 1..Len(stream.events) :
       \/ stream.events[k].event \in TerminalEvents
       \/ IsJobStatus(stream.events[k]) /\ stream.events[k].status \in Terminal

\* C26: in any interleaving of the stream with the engine, once the stream
\* sent a job_status event carrying SUCCEEDED or FAILED, or a succeeded or
\* failed event, the run's apply loop is over: the run has ended, after
\* "done" of every operation when the status is SUCCEEDED, and the engine
\* produces no further progress event.
C26_TerminalAfterLoop ==
  /\ [](SentTerminal =>
         /\ Ended(stream.job_id)
         /\ stream.job[1].status = "SUCCEEDED" => LoopCompleted(stream.job_id))
  /\ [][SentTerminal =>
         /\ progress'[stream.job_id] = progress[stream.job_id]
         /\ backend'[stream.job_id] # backend[stream.job_id] =>
              backend'[stream.job_id].state # "PROGRESS"]_vars

\* A stream that saw the job RUNNING and then sent failed, for a run whose
\* second operation raised after three progress events.
C26_Witness ==
  /\ SentTerminal
  /\ stream.events[Len(stream.events)].event = "failed"
  /\ \E k \in 1..Len(stream.events) :
       IsJobStatus(stream.events[k]) /\ stream.events[k].status = "RUNNING"
  /\ Len(progress[stream.job_id]) = 3
  /\ HandlerRaised(stream.job_id)

\* The columns of a job row the engine writes.
EngineFields == {"status", "error", "output_file", "started_at", "finished_at"}

\* The positions of execute_pipeline at which it saves the row.
EngineWrites == {"mark_running", "save_output", "mark_succeeded", "except"}

\* C27: the status, stream and download interfaces and the stream's loop
\* never change a job row, and once a row exists its status, error, output
\* and start and finish timestamps change only in a step of
\* execute_pipeline that saves the row (mark_running, the output save,
\* mark_succeeded, mark_failed).
C27_ReadersNeverWrite ==
  [][/\ (stream' # stream \/ reply' # reply) => db' = db
     /\ \A j \in DOMAIN db :
          (\E f \in EngineFields : db'[j][f] # db[j][f]) =>
            /\ task[j].pc \in EngineWrites
            /\ task'[j].pc # task[j].pc]_vars

\* A stream watched a whole run: it read the row in every status while the
\* engine wrote status, output and both timestamps.
C27_Witness ==
  /\ stream.pc = "ended"
  /\ Len(JobStatuses(stream.events)) = 3
  /\ db[stream.job_id].status = "SUCCEEDED"
  /\ db[stream.job_id].output_file # << >>
  /\ db[stream.job_id].started_at # << >>
  /\ db[stream.job_id].finished_at # << >>

\* The job id names no row, or a row of another principal.
Hidden(user, job_id) ==
  job_id \notin DOMAIN db \/ db[job_id].clerk_user_id # user

Foreign(user, job_id) ==
  job_id \in DOMAIN db /\ db[job_id].clerk_user_id # user

\* C28: at the status, the stream and the download interface, a request by
\* an authenticated principal for a job of another principal is answered,
\* whatever the job's state, with the response a job id without a row gets:
\* status code 404 and the payload {"error": "Job not found"}.
C28_ForeignJobLooksUnknown ==
  [][/\ (reply' # reply /\ reply' # NoReply /\ reply'.user # ""
          /\ Hidden(reply'.user, reply'.job_id)) =>
          /\ reply'.code = NotFound.code
          /\ reply'.body = NotFound.body
          /\ reply'.code = StatusGet(db, reply'.user, UnknownJobId).code
          /\ reply'.body = StatusGet(db, reply'.user, UnknownJobId).body
          /\ reply'.code = DownloadGet(db, reply'.user, UnknownJobId).code
          /\ reply'.body = DownloadGet(db, reply'.user, UnknownJobId).body
     /\ (stream.pc = "idle" /\ stream'.pc # "idle" /\ stream'.user # ""
          /\ Hidden(stream'.user, stream'.job_id)) =>
          /\ stream'.pc = "rejected"
          /\ stream'.code = NotFound.code
          /\ stream'.events = <<NotFound.body>>]_vars

\* Another principal asked for the download of a job that exists (its run
\* succeeded and its output is attached) and was answered 404.
C28_Witness ==
  /\ reply.view = "download"
  /\ reply.user = "u2"
  /\ Foreign(reply.user, reply.job_id)
  /\ task[reply.job_id].pc = "returned"
  /\ backend[reply.job_id].state = "SUCCESS"
  /\ DownloadReady(db[reply.job_id])
  /\ reply.code = 404

\* The submission view answered a request of an authenticated principal
\* with a well-formed operation list that names a file of another principal.
AnsweredForeignFile ==
  /\ post.pc = "respond"
  /\ http.user # "" /\ http.file_id \in DOMAIN Files
  /\ Files[http.file_id].clerk_user_id # http.user
  /\ validate_pipeline_operations(http.ops).ok

\* C29: at the submission interface a request naming a file of another
\* principal gets the response of a request naming a file that does not
\* exist (404, file not found), and no job is created.
C29_ForeignFileLooksUnknown ==
  AnsweredForeignFile =>
    /\ http.code = 404
    /\ http.error = "File not found"
    /\ \A j \in DOMAIN db : db[j].file # http.file_id \/ db[j].clerk_user_id # http.user

\* The download view answers its owner's request for a job that exists.
OwnerDownloads ==
  /\ reply' # reply
  /\ reply'.view = "download"
  /\ reply'.job_id \in DOMAIN db
  /\ db[reply'.job_id].clerk_user_id = reply'.user

\* C30: the download interface returns the output only when the job's
\* status is SUCCEEDED, and then the output attached to the row; for a job
\* that is PENDING, RUNNING or FAILED, at any point of any interleaving
\* with the engine, it returns no file and reports the current status.
C30_DownloadOnlyWhenSucceeded ==
  [][OwnerDownloads =>
       IF db[reply'.job_id].status = "SUCCEEDED"
       THEN IF db[reply'.job_id].output_file # << >>
            THEN /\ reply'.code = 200
                 /\ <<reply'.body.file>> = db[reply'.job_id].output_file
            ELSE reply'.code = 400
       ELSE /\ reply'.code = 400
            /\ "file" \notin DOMAIN reply'.body
            /\ reply'.body.status = db[reply'.job_id].status]_vars

\* The owner asked for the download while the run was between the output
\* save and mark_succeeded, and was told the job is RUNNING.
C30_Witness ==
  /\ reply.view = "download"
  /\ reply.job_id \in DOMAIN db
  /\ db[reply.job_id].clerk_user_id = reply.user
  /\ reply.code = 400
  /\ reply.body.status = "RUNNING"
  /\ db[reply.job_id].status = "RUNNING"
  /\ db[reply.job_id].output_file # << >>

\* The row of job j exists and holds this status.
HasStatus(j, statuses) == j \in DOMAIN db /\ db[j].status \in statuses

StreamOpen == stream.pc \in {"connect", "poll_job", "poll_task"}

\* The terminal event that matches a terminal status.
TerminalEventOf(status) == IF status = "SUCCEEDED" THEN "succeeded" ELSE "failed"

\* C32: once the job a stream observes is SUCCEEDED or FAILED, the loop
\* eventually emits the matching terminal event as its last event and ends;
\* and the loop ends only in a turn that read a terminal status from the
\* row: while the job is not terminal the stream stays open.
C32_StreamEndsIffTerminal ==
  /\ (StreamOpen /\ HasStatus(stream.job_id, Terminal))
       ~> (/\ stream.pc = "ended"
           /\ stream.events[Len(stream.events)].event
                = TerminalEventOf(db[stream.job_id].status))
  /\ [][StreamOpen /\ ~StreamOpen'
         => /\ stream'.pc = "ended"
            /\ HasStatus(stream.job_id, Terminal)]_vars

\* A stream opened on a job that was not terminal has seen it RUNNING and
\* ended with the failed event.
C32_Witness ==
  /\ stream.pc = "ended"
  /\ stream.events[1].status \notin Terminal
  /\ \E k \in 1..Len(stream.events) :
       /\ stream.events[k].event = "job_status"
       /\ stream.events[k].status = "RUNNING"
  /\ stream.events[Len(stream.events)].event = "failed"

\* A row, or a reader's copy of it, that says SUCCEEDED has the output
\* attached and no error.
SucceededComplete(job) ==
  job.status = "SUCCEEDED" => job.output_file # << >> /\ job.error = << >>

\* C33: whatever a reader reads as SUCCEEDED, it reads with the output
\* attached and the error empty: the row itself at every moment, the payload
\* of the status interface, the copy the stream refreshed and the job_status
\* events it sent.
C33_SucceededShowsOutput ==
  /\ \A j \in DOMAIN db : SucceededComplete(db[j])
  /\ reply.view = "status" /\ reply.code = 200 /\ reply.body.status = "SUCCEEDED"
       => reply.body.has_output /\ reply.body.error = << >>
  /\ stream.job # << >> => SucceededComplete(stream.job[1])
  /\ \A k \in 1..Len(stream.events) :
       (stream.code = 200 /\ stream.events[k].event = "job_status"
          /\ stream.events[k].status = "SUCCEEDED")
       => stream.events[k].error = << >>

\* The owner read SUCCEEDED at the status interface after a run of two
\* operations.
C33_Witness ==
  /\ reply.view = "status"
  /\ reply.code = 200
  /\ reply.body.status = "SUCCEEDED"
  /\ reply.body.has_output
  /\ Len(calls[reply.job_id]) = 2

\* C34: in every stream, a succeeded or failed event comes right after a
\* job_status event that carries the same terminal status, also when the job
\* was terminal already when the stream was opened.
C34_TerminalAfterItsJobStatus ==
  Streaming =>
    \A k \in 1..Len(stream.events) :
      stream.events[k].event \in TerminalEvents
      => /\ k > 1
         /\ stream.events[k - 1].event = "job_status"
         /\ stream.events[k - 1].status = stream.events[k].status
         /\ stream.events[k].status \in Terminal

\* A stream opened on a job that was terminal sent connected, job_status and
\* the terminal event.
C34_Witness ==
  /\ stream.pc = "ended"
  /\ stream.events[1].status \in Terminal
  /\ Len(stream.events) = 3
  /\ stream.events[3].event \in TerminalEvents

\* The columns of a row other than the task handle (updated_at, which every
\* save rewrites, is not a column of the model).
OtherColumns(row) == DOMAIN row \ {"celery_task_id"}

\* The message of job j was accepted by the broker.
Dispatched(j) == j \in queue \/ task[j].pc # "none"

\* C35: the write of the task handle by the submission view leaves the
\* status, the error, the output and the started and finished timestamps of
\* the row as they are, wherever it falls between the engine's transitions;
\* a run that ended leaves the status the engine set, and the handle of a
\* dispatched job, once the view wrote it, is the id of the dispatched task.
C35_HandleWriteTouchesHandleOnly ==
  /\ [][post.pc = "save_task_id" /\ post'.pc # "save_task_id"
         => LET j == post.job_id[1]
            IN /\ \A f \in OtherColumns(db[j]) : db'[j][f] = db[j][f]
               /\ db'[j].celery_task_id = <<TaskIdOf(j)>>]_vars
  /\ [](\A j \in DOMAIN db :
         /\ task[j].pc = "returned" => db[j].status = "SUCCEEDED"
         /\ task[j].pc = "raised" /\ task[j].job # << >> => db[j].status = "FAILED"
         /\ db[j].celery_task_id \in {<< >>, <<TaskIdOf(j)>>}
         /\ (Dispatched(j) /\ ~(post.pc = "save_task_id" /\ post.job_id = <<j>>))
            => db[j].celery_task_id = <<TaskIdOf(j)>>)

\* The engine finished the job before the view wrote the handle: after the
\* write the row is SUCCEEDED with its output, and the view answers 202.
C35_Witness ==
  /\ post.pc = "respond"
  /\ http.code = 202
  /\ LET j == post.job_id[1]
     IN /\ db[j].status = "SUCCEEDED"
        /\ db[j].output_file # << >>
        /\ db[j].finished_at # << >>
        /\ db[j].celery_task_id = <<TaskIdOf(j)>>

\* The submission view is through with job j: it is not between the create
\* and the response of the request that created j.
ViewDoneWith(j) == post.job_id # <<j>>

\* C36: every job row the submission view persisted has its task
\* dispatched once the view is through with the request, a failed dispatch
\* leaving no PENDING row behind; and with the worker and the view taking
\* their steps no job stays PENDING forever.
C36_PersistedJobsAreDispatched ==
  /\ [](\A j \in DOMAIN db :
         (ViewDoneWith(j) /\ db[j].status = "PENDING") => Dispatched(j))
  /\ \A j \in JobIds :
       HasStatus(j, {"PENDING"}) ~> HasStatus(j, {"RUNNING", "SUCCEEDED", "FAILED"})

\* C37: validate_pipeline_operations accepts every list it returned and
\* returns it unchanged, so the list the submission view stored passes the
\* engine's validation as it is.
C37_ValidateIdempotent ==
  (Returned("validate_pipeline_operations") /\ svc.ret[1].ok)
  => validate_pipeline_operations(svc.ret[1].val) = svc.ret[1]

\* The validator returned a list of two operations that differs from the one
\* it was given: an id lost its surrounding blanks.
C37_Witness ==
  /\ Returned("validate_pipeline_operations")
  /\ svc.ret[1].ok
  /\ Len(svc.ret[1].val.v) = 2
  /\ svc.ret[1].val # svc.args[1]

\* The cells of the header row are pairwise distinct.
HeaderDistinct(ws) ==
  \A a, b \in 1..Len(HeaderValues(ws, HeaderRowIdx)) :
    a # b => HeaderValues(ws, HeaderRowIdx)[a] # HeaderValues(ws, HeaderRowIdx)[b]

\* A rename or a drop called on its own returned without raising.
Applied(fn) == Returned(fn) /\ svc.ret[1].ok

\* C38: a rename_column or drop_column that succeeds on a worksheet whose
\* header cells are pairwise distinct leaves them pairwise distinct; step by
\* step this holds after every operation of every pipeline.
C38_HeaderStaysDistinct ==
  \A fn \in {"apply_rename_column", "apply_drop_column"} :
    (Applied(fn) /\ HeaderDistinct(svc.args[1])) => HeaderDistinct(svc.ret[1].val)

\* A rename succeeded on a sheet with distinct headers and changed the
\* header row.
C38_Witness ==
  /\ Applied("apply_rename_column")
  /\ HeaderDistinct(svc.args[1])
  /\ HeaderValues(svc.ret[1].val, HeaderRowIdx) # HeaderValues(svc.args[1], HeaderRowIdx)

\* C39: a drop that succeeds leaves the worksheet with as many columns
\* fewer as columnIds has entries, no two accepted entries resolving to the
\* same position.
C39_DropRemovesOnePerEntry ==
  Applied("apply_drop_column")
  => MaxColumn(svc.ret[1].val) = MaxColumn(svc.args[1]) - Len(svc.args[3].v)

====
